---- MODULE Spec2Model ----
(***************************************************************************)
(* A model of the core of the http2 package: the per-stream state machine  *)
(* (stream.transition, dir.transition, stream.close,                        *)
(* stream.compareAndSwapState), the receive flow controller                 *)
(* (flowController), the send flow controller (remoteFlowController,        *)
(* allocateBytes) and the settings (Settings.SetValue, Settings.Value).     *)
(***************************************************************************)
EXTENDS Integers, Sequences, FiniteSets, TLC

(***************************************************************************)
(* Bounds of the model.                                                     *)
(***************************************************************************)
\* The clock runs from 0 to MaxTime seconds.
MaxTime == 7

\* time.Duration(5)*time.Second, the period a closed stream tolerates frames.
closedGraceSeconds == 5

(***************************************************************************)
(* Stream states, frame types, directions.                                  *)
(***************************************************************************)
StateIdle == "Idle"
StateReservedLocal == "ReservedLocal"
StateReservedRemote == "ReservedRemote"
StateOpen == "Open"
StateHalfClosedLocal == "HalfClosedLocal"
StateHalfClosedRemote == "HalfClosedRemote"
StateClosed == "Closed"

StreamState ==
    { StateIdle, StateReservedLocal, StateReservedRemote, StateOpen,
      StateHalfClosedLocal, StateHalfClosedRemote, StateClosed }

FrameData == "DATA"
FrameHeaders == "HEADERS"
FramePriority == "PRIORITY"
FrameRSTStream == "RST_STREAM"
FrameSettings == "SETTINGS"
FramePushPromise == "PUSH_PROMISE"
FramePing == "PING"
FrameGoAway == "GOAWAY"
FrameWindowUpdate == "WINDOW_UPDATE"
FrameContinuation == "CONTINUATION"
\* The type of an UnknownFrame: any value that is none of the ten above.
FrameUnknown == "UNKNOWN"

FrameType ==
    { FrameData, FrameHeaders, FramePriority, FrameRSTStream, FrameSettings,
      FramePushPromise, FramePing, FrameGoAway, FrameWindowUpdate,
      FrameContinuation, FrameUnknown }

recv == "recv"
send == "send"

\* A frame as the state machine sees it: its kind and its END_STREAM bit
\* (the EndStream field of DATA and HEADERS, FlagEndStream of the others).
\* No frame struct exists for CONTINUATION.
Frame == [kind : FrameType \ {FrameContinuation}, EndStream : BOOLEAN]

Type(f) == f.kind

EndOfStream(f) ==
    CASE f.kind = FrameData -> f.EndStream
      [] f.kind = FrameHeaders -> f.EndStream
      [] f.kind = FrameUnknown -> f.EndStream
      [] OTHER -> FALSE

(***************************************************************************)
(* Errors.  nil, the ignoreFrame marker, a plain (local) error, a          *)
(* StreamError or a ConnError with its code.                                *)
(***************************************************************************)
ErrCodeProtocol == "PROTOCOL_ERROR"
ErrCodeInternal == "INTERNAL_ERROR"
ErrCodeFlowControl == "FLOW_CONTROL_ERROR"
ErrCodeStreamClosed == "STREAM_CLOSED"
NoCode == "-"

nil == [kind |-> "nil", code |-> NoCode]
ignoreFrame == [kind |-> "ignored", code |-> NoCode]
LocalError == [kind |-> "local", code |-> NoCode]
StreamError(code) == [kind |-> "stream", code |-> code]
ConnError(code) == [kind |-> "conn", code |-> code]

(***************************************************************************)
(* dir.transition: the table, then the END_STREAM post-processing.          *)
(***************************************************************************)
\* The switch on (dir, from, frameType); to = from unless a case sets it.
tableTransition(d, from, frameType) ==
    LET stay == [to |-> from, ok |-> TRUE]
        goto(t) == [to |-> t, ok |-> TRUE]
        bad == [to |-> from, ok |-> FALSE]
    IN
    IF d = recv
    THEN CASE from = StateIdle ->
                 CASE frameType = FrameHeaders -> goto(StateOpen)
                   [] frameType = FramePriority -> stay
                   [] frameType = FramePushPromise -> goto(StateReservedRemote)
                   [] OTHER -> bad
           [] from \in {StateReservedLocal, StateHalfClosedRemote} ->
                 CASE frameType \in {FramePriority, FrameWindowUpdate} -> stay
                   [] frameType = FrameRSTStream -> goto(StateClosed)
                   [] OTHER -> bad
           [] from = StateReservedRemote ->
                 CASE frameType = FrameHeaders -> goto(StateHalfClosedLocal)
                   [] frameType = FramePriority -> stay
                   [] frameType = FrameRSTStream -> goto(StateClosed)
                   [] OTHER -> bad
           [] from \in {StateOpen, StateHalfClosedLocal} ->
                 CASE frameType = FrameRSTStream -> goto(StateClosed)
                   [] OTHER -> stay
           [] from = StateClosed ->
                 CASE frameType = FramePriority -> stay
                   [] OTHER -> bad
    ELSE CASE from = StateIdle ->
                 CASE frameType = FrameHeaders -> goto(StateOpen)
                   [] frameType = FramePriority -> stay
                   [] frameType = FramePushPromise -> goto(StateReservedLocal)
                   [] OTHER -> bad
           [] from = StateReservedLocal ->
                 CASE frameType = FrameHeaders -> goto(StateHalfClosedRemote)
                   [] frameType = FramePriority -> stay
                   [] frameType = FrameRSTStream -> goto(StateClosed)
                   [] OTHER -> bad
           [] from \in {StateReservedRemote, StateHalfClosedLocal} ->
                 CASE frameType \in {FramePriority, FrameWindowUpdate} -> stay
                   [] frameType = FrameRSTStream -> goto(StateClosed)
                   [] OTHER -> bad
           [] from = StateOpen ->
                 CASE frameType = FrameRSTStream -> goto(StateClosed)
                   [] OTHER -> stay
           [] from = StateHalfClosedRemote ->
                 CASE frameType \in {FrameData, FrameHeaders, FramePriority} -> stay
                   [] frameType = FrameRSTStream -> goto(StateClosed)
                   [] OTHER -> bad
           [] from = StateClosed ->
                 CASE frameType = FramePriority -> stay
                   [] OTHER -> bad

\* A slip: END_STREAM half-closes the remote side whatever the direction.
endStreamPromoteOneSided(d, to, endStream) ==
    IF ~endStream THEN to
    ELSE CASE to = StateOpen -> StateHalfClosedRemote
           [] to \in {StateHalfClosedLocal, StateHalfClosedRemote} -> StateClosed
           [] OTHER -> to

\* if endStream { switch to { ... } }
endStreamPromote(d, to, endStream) ==
    IF ~endStream THEN to
    ELSE CASE to = StateOpen ->
                 IF d = recv THEN StateHalfClosedRemote ELSE StateHalfClosedLocal
           [] to \in {StateHalfClosedLocal, StateHalfClosedRemote} -> StateClosed
           [] OTHER -> to

\* A slip: HEADERS on a Closed stream opens it, as on an Idle one.
dirTransitionReopens(d, from, frameType, endStream) ==
    LET t == tableTransition(d, from, frameType) IN
    IF from = StateClosed /\ frameType = FrameHeaders
    THEN [to |-> endStreamPromote(d, StateOpen, endStream), ok |-> TRUE]
    ELSE IF ~t.ok THEN t
    ELSE [to |-> endStreamPromote(d, t.to, endStream), ok |-> TRUE]

\* A slip: RST_STREAM on a Closed stream is accepted, as PRIORITY is.
dirTransitionResetsClosed(d, from, frameType, endStream) ==
    LET t == tableTransition(d, from, frameType) IN
    IF from = StateClosed /\ frameType = FrameRSTStream
    THEN [to |-> StateClosed, ok |-> TRUE]
    ELSE IF ~t.ok THEN t
    ELSE [to |-> endStreamPromote(d, t.to, endStream), ok |-> TRUE]

dirTransition(d, from, frameType, endStream) ==
    LET t == tableTransition(d, from, frameType) IN
    IF ~t.ok THEN t
    ELSE [to |-> endStreamPromote(d, t.to, endStream), ok |-> TRUE]

(***************************************************************************)
(* stream.transition, the branch taken when dir.transition refuses the     *)
(* frame: the error returned, from the state loaded, the reset flags and    *)
(* time.Since(s.closed) in seconds.                                         *)
(***************************************************************************)
\* A slip: the tolerance period ends before its last second.
withinGraceStrict(since) == since < closedGraceSeconds

\* time.Since(s.closed) <= time.Duration(5)*time.Second
withinGrace(since) == since <= closedGraceSeconds

\* A slip: the test of the direction is lost, and a refused frame gets the
\* plain error of a refused send.
transitionErrorPlain(d, from, frameType, rReceived, rSent, since) ==
    IF from = StateClosed
    THEN IF frameType = FrameRSTStream THEN ignoreFrame ELSE LocalError
    ELSE LocalError

\* A slip: the case of HalfClosedRemote is lost.
transitionErrorNoHalfClosed(d, from, frameType, rReceived, rSent, since) ==
    IF d = send
    THEN IF from = StateClosed
         THEN IF frameType = FrameRSTStream THEN ignoreFrame ELSE LocalError
         ELSE LocalError
    ELSE IF rReceived THEN StreamError(ErrCodeStreamClosed)
    ELSE IF rSent
         THEN IF withinGrace(since)
              THEN ignoreFrame
              ELSE StreamError(ErrCodeStreamClosed)
    ELSE IF from = StateClosed /\ frameType \in {FrameRSTStream, FrameWindowUpdate}
         THEN IF withinGrace(since)
              THEN ignoreFrame
              ELSE ConnError(ErrCodeProtocol)
    ELSE ConnError(ErrCodeProtocol)

\* A slip: a RST_STREAM sent on a Closed stream is an error like any other.
transitionErrorSendReset(d, from, frameType, rReceived, rSent, since) ==
    IF d = send
    THEN LocalError
    ELSE IF rReceived THEN StreamError(ErrCodeStreamClosed)
    ELSE IF rSent
         THEN IF withinGrace(since)
              THEN ignoreFrame
              ELSE StreamError(ErrCodeStreamClosed)
    ELSE IF from = StateHalfClosedRemote THEN ConnError(ErrCodeStreamClosed)
    ELSE IF from = StateClosed /\ frameType \in {FrameRSTStream, FrameWindowUpdate}
         THEN IF withinGrace(since)
              THEN ignoreFrame
              ELSE ConnError(ErrCodeProtocol)
    ELSE ConnError(ErrCodeProtocol)

transitionError(d, from, frameType, rReceived, rSent, since) ==
    IF d = send
    THEN IF from = StateClosed
         THEN IF frameType = FrameRSTStream THEN ignoreFrame ELSE LocalError
         ELSE LocalError
    ELSE IF rReceived THEN StreamError(ErrCodeStreamClosed)
    ELSE IF rSent
         THEN IF withinGrace(since)
              THEN ignoreFrame
              ELSE StreamError(ErrCodeStreamClosed)
    ELSE IF from = StateHalfClosedRemote THEN ConnError(ErrCodeStreamClosed)
    ELSE IF from = StateClosed /\ frameType \in {FrameRSTStream, FrameWindowUpdate}
         THEN IF withinGrace(since)
              THEN ignoreFrame
              ELSE ConnError(ErrCodeProtocol)
    ELSE ConnError(ErrCodeProtocol)

(***************************************************************************)
(* The state of a connection's streams.                                     *)
(***************************************************************************)
\* The stream followed: stream 1, initiated by this endpoint when it is the
\* client (conn.server false) and by the peer when it is the server.
StreamIDs == {1}

VARIABLES
    server,            \* conn.server
    state,             \* stream.state, per stream id
    resetSent,         \* stream.resetSent
    resetReceived,     \* stream.resetReceived
    closed,            \* stream.closed, in seconds
    numStreams,        \* conn.numStreams, the locally initiated active streams
    remoteNumStreams,  \* conn.remote.numStreams
    now,               \* the clock read by time.Now and time.Since
    ret,               \* what the call that returned in this step returned
    task               \* the position of each task inside transition or close

streamVars ==
    << server, state, resetSent, resetReceived, closed, numStreams,
       remoteNumStreams, now, ret, task >>

\* The zero time.Time of a stream that was never closed: longer ago than
\* any period the code compares with.
zeroTime == 0 - (closedGraceSeconds + 1)

Since(t) == now - t

localStreamID(srv, streamID) == srv = ((streamID % 2) = 0)

local(s) == localStreamID(server, s)

active(st) == st \in {StateOpen, StateHalfClosedLocal, StateHalfClosedRemote}

\* atomic.AddUint32 on a stream counter.  The counter is held as the int32
\* reading of its 32 bits, so that 0 + ^uint32(0) = 0xFFFFFFFF reads -1.
AddUint32(x, d) == x + d

(***************************************************************************)
(* stream.compareAndSwapState, after the swap succeeded: the counter that  *)
(* changes, the closed timestamp, and stream.transition's reset flags.      *)
(***************************************************************************)
\* case StateOpen, StateHalfClosedLocal, StateHalfClosedRemote: switch from
\* { case StateIdle, StateReservedLocal, StateReservedRemote: ... }
becomesActive(from, to) ==
    /\ active(to)
    /\ from \in {StateIdle, StateReservedLocal, StateReservedRemote}

\* case StateClosed: switch from { case StateOpen, ... }
leavesActive(from, to) == to = StateClosed /\ active(from)

\* A slip: every swap to Closed takes one off the counter, whether or not
\* the stream was counted.
counterDeltaEveryClose(from, to) ==
    IF becomesActive(from, to) THEN 1
    ELSE IF to = StateClosed /\ from # StateClosed THEN 0 - 1
    ELSE 0

counterDelta(from, to) ==
    IF becomesActive(from, to) THEN 1
    ELSE IF leavesActive(from, to) THEN 0 - 1
    ELSE 0

\* A slip: every swap to Closed arms the timestamp, a swap from Closed too.
armsClosedAgain(from, to) == to = StateClosed

\* if from != StateClosed { s.closed = time.Now(); ... }
armsClosed(from, to) == to = StateClosed /\ from # StateClosed

\* if to == StateClosed && frameType == FrameRSTStream
setsReset(to, frameType) == to = StateClosed /\ frameType = FrameRSTStream

swapNumStreams(s, from, to) ==
    IF local(s) THEN AddUint32(numStreams, counterDelta(from, to)) ELSE numStreams

swapRemoteNumStreams(s, from, to) ==
    IF local(s) THEN remoteNumStreams
    ELSE AddUint32(remoteNumStreams, counterDelta(from, to))

swapClosed(s, from, to) ==
    IF armsClosed(from, to) THEN [closed EXCEPT ![s] = now] ELSE closed

flagResetSent(s, d, to, frameType) ==
    IF setsReset(to, frameType) /\ d = send
    THEN [resetSent EXCEPT ![s] = TRUE] ELSE resetSent

flagResetReceived(s, d, to, frameType) ==
    IF setsReset(to, frameType) /\ d = recv
    THEN [resetReceived EXCEPT ![s] = TRUE] ELSE resetReceived

(***************************************************************************)
(* What a call returned: the operation, its frame, the state it loaded,    *)
(* the state it returned and the error.  ret holds it in the step of the   *)
(* return and NoCall after every other step.                                *)
(***************************************************************************)
Returned(op, s, kind, es, from, to, err) ==
    [op |-> op, s |-> s, kind |-> kind, es |-> es, from |-> from, to |-> to,
     err |-> err]

NoCall == Returned("none", 0, FramePriority, FALSE, StateIdle, StateIdle, nil)

StreamInit ==
    /\ server \in BOOLEAN
    /\ state = [s \in StreamIDs |-> StateIdle]
    /\ resetSent = [s \in StreamIDs |-> FALSE]
    /\ resetReceived = [s \in StreamIDs |-> FALSE]
    /\ closed = [s \in StreamIDs |-> zeroTime]
    /\ numStreams = 0
    /\ remoteNumStreams = 0
    /\ now = 0
    /\ ret = NoCall

(***************************************************************************)
(* The operations of a stream, each call taken as one step.                 *)
(***************************************************************************)
\* stream.transition(dir, frameType, endStream)
transition(s, d, frameType, endStream) ==
    LET from == state[s]
        r == dirTransition(d, from, frameType, endStream)
    IN
    IF ~r.ok
    THEN /\ ret' = Returned(d, s, frameType, endStream, from, from,
                            transitionError(d, from, frameType, resetReceived[s],
                                            resetSent[s], Since(closed[s])))
         /\ UNCHANGED << server, state, resetSent, resetReceived, closed,
                         numStreams, remoteNumStreams, now, task >>
    ELSE /\ state' = [state EXCEPT ![s] = r.to]
         /\ numStreams' = swapNumStreams(s, from, r.to)
         /\ remoteNumStreams' = swapRemoteNumStreams(s, from, r.to)
         /\ closed' = swapClosed(s, from, r.to)
         /\ resetSent' = flagResetSent(s, d, r.to, frameType)
         /\ resetReceived' = flagResetReceived(s, d, r.to, frameType)
         /\ ret' = Returned(d, s, frameType, endStream, from, r.to, nil)
         /\ UNCHANGED << server, now, task >>

\* A frame handed to the state machine with its Type and EndOfStream.
Transition(s, d, f) == transition(s, d, Type(f), EndOfStream(f))

Receive(s, f) == Transition(s, recv, f)

Send(s, f) == Transition(s, send, f)

\* stream.close()
Close(s) ==
    LET from == state[s] IN
    /\ state' = [state EXCEPT ![s] = StateClosed]
    /\ numStreams' = swapNumStreams(s, from, StateClosed)
    /\ remoteNumStreams' = swapRemoteNumStreams(s, from, StateClosed)
    /\ closed' = swapClosed(s, from, StateClosed)
    /\ ret' = Returned("close", s, FramePriority, FALSE, from, StateClosed, nil)
    /\ UNCHANGED << server, resetSent, resetReceived, now, task >>

\* A second passes.
Tick ==
    /\ now < MaxTime
    /\ now' = now + 1
    /\ ret' = NoCall
    /\ UNCHANGED << server, state, resetSent, resetReceived, closed,
                    numStreams, remoteNumStreams, task >>

(***************************************************************************)
(* The tasks of the concurrent specification: the position of each inside  *)
(* transition or close, and what it has loaded.                             *)
(***************************************************************************)
TaskIDs == {"reader", "writer", "closer"}

IdleTask ==
    [pc |-> "idle", op |-> "none", s |-> 0, kind |-> FramePriority,
     es |-> FALSE,
     from |-> StateIdle, to |-> StateIdle, rSent |-> FALSE]

TaskInit == task = [t \in TaskIDs |-> IdleTask]

dirOf(t) == IF t = "reader" THEN recv ELSE send

Return(t, err, to) ==
    /\ ret' = Returned(task[t].op, task[t].s, task[t].kind, task[t].es,
                       task[t].from, to, err)
    /\ task' = [task EXCEPT ![t] = IdleTask]

\* from := atomic.LoadInt32(&s.state); to, ok := dir.transition(...), and
\* the return of a refused send.  close() loads the state alike.
loadState(t, op, s, kind, es) ==
    LET from == state[s]
        r == IF op = "close" THEN [to |-> StateClosed, ok |-> TRUE]
             ELSE dirTransition(op, from, kind, es)
        tk == [IdleTask EXCEPT !.op = op, !.s = s, !.kind = kind, !.es = es,
                               !.from = from, !.to = r.to]
    IN
    /\ UNCHANGED << server, state, resetSent, resetReceived, closed,
                    numStreams, remoteNumStreams, now >>
    /\ IF r.ok
       THEN /\ task' = [task EXCEPT ![t] = [tk EXCEPT !.pc = "cas"]]
            /\ ret' = NoCall
       ELSE IF op = send
       THEN /\ ret' = Returned(op, s, kind, es, from, from,
                               transitionError(send, from, kind, FALSE, FALSE, 0))
            /\ task' = [task EXCEPT ![t] = IdleTask]
       ELSE /\ task' = [task EXCEPT ![t] = [tk EXCEPT !.pc = "readReceived"]]
            /\ ret' = NoCall

\* A task enters stream.transition and loads the state.
TaskCall(t, s, f) ==
    /\ t \in {"reader", "writer"}
    /\ task[t].pc = "idle"
    /\ loadState(t, dirOf(t), s, Type(f), EndOfStream(f))

\* A task enters stream.close and loads the state.
TaskClose(t, s) ==
    /\ t = "closer"
    /\ task[t].pc = "idle"
    /\ loadState(t, "close", s, FramePriority, FALSE)

\* The next round of the for loop, after a failed swap.
TaskReload(t) ==
    /\ task[t].pc = "load"
    /\ loadState(t, task[t].op, task[t].s, task[t].kind, task[t].es)

\* if s.resetReceived { return ... }
TaskReadResetReceived(t) ==
    /\ task[t].pc = "readReceived"
    /\ UNCHANGED << server, state, resetSent, resetReceived, closed,
                    numStreams, remoteNumStreams, now >>
    /\ IF resetReceived[task[t].s]
       THEN Return(t, transitionError(recv, task[t].from, task[t].kind,
                                      TRUE, FALSE, 0), task[t].from)
       ELSE /\ task' = [task EXCEPT ![t].pc = "readSent"]
            /\ ret' = NoCall

\* if s.resetSent { ... }, and the switch on from that follows.
TaskReadResetSent(t) ==
    /\ task[t].pc = "readSent"
    /\ UNCHANGED << server, state, resetSent, resetReceived, closed,
                    numStreams, remoteNumStreams, now >>
    /\ IF \/ resetSent[task[t].s]
          \/ /\ task[t].from = StateClosed
             /\ task[t].kind \in {FrameRSTStream, FrameWindowUpdate}
       THEN /\ task' = [task EXCEPT ![t].pc = "readClosed",
                                    ![t].rSent = resetSent[task[t].s]]
            /\ ret' = NoCall
       ELSE Return(t, transitionError(recv, task[t].from, task[t].kind,
                                      FALSE, FALSE, 0), task[t].from)

\* time.Since(s.closed) <= time.Duration(5)*time.Second
TaskReadClosed(t) ==
    /\ task[t].pc = "readClosed"
    /\ UNCHANGED << server, state, resetSent, resetReceived, closed,
                    numStreams, remoteNumStreams, now >>
    /\ Return(t, transitionError(recv, task[t].from, task[t].kind, FALSE,
                                 task[t].rSent, Since(closed[task[t].s])),
              task[t].from)

\* Where a task goes after a step of compareAndSwapState: the steps that
\* change nothing are passed over.
afterSwap(t, done) ==
    LET from == task[t].from
        to == task[t].to
    IN
    IF done = "cas" /\ counterDelta(from, to) # 0 THEN "count"
    ELSE IF done \in {"cas", "count"} /\ armsClosed(from, to) THEN "arm"
    ELSE IF /\ done \in {"cas", "count", "arm"}
            /\ task[t].op # "close"
            /\ setsReset(to, task[t].kind) THEN "flag"
    ELSE "return"

Advance(t, done) ==
    IF afterSwap(t, done) = "return"
    THEN Return(t, nil, task[t].to)
    ELSE /\ task' = [task EXCEPT ![t].pc = afterSwap(t, done)]
         /\ ret' = NoCall

\* atomic.CompareAndSwapInt32(&s.state, from, to)
TaskCAS(t) ==
    /\ task[t].pc = "cas"
    /\ UNCHANGED << server, resetSent, resetReceived, closed, numStreams,
                    remoteNumStreams, now >>
    /\ IF state[task[t].s] = task[t].from
       THEN /\ state' = [state EXCEPT ![task[t].s] = task[t].to]
            /\ Advance(t, "cas")
       ELSE /\ task' = [task EXCEPT ![t].pc = "load"]
            /\ ret' = NoCall
            /\ UNCHANGED state

\* atomic.AddUint32 on the counter of the stream's side.
TaskCount(t) ==
    /\ task[t].pc = "count"
    /\ numStreams' = swapNumStreams(task[t].s, task[t].from, task[t].to)
    /\ remoteNumStreams' =
           swapRemoteNumStreams(task[t].s, task[t].from, task[t].to)
    /\ UNCHANGED << server, state, resetSent, resetReceived, closed, now >>
    /\ Advance(t, "count")

\* s.closed = time.Now()
TaskArm(t) ==
    /\ task[t].pc = "arm"
    /\ closed' = swapClosed(task[t].s, task[t].from, task[t].to)
    /\ UNCHANGED << server, state, resetSent, resetReceived, numStreams,
                    remoteNumStreams, now >>
    /\ Advance(t, "arm")

\* s.resetReceived = true, or s.resetSent = true; return to, nil
TaskFlag(t) ==
    /\ task[t].pc = "flag"
    /\ resetSent' = flagResetSent(task[t].s, task[t].op, task[t].to, task[t].kind)
    /\ resetReceived' =
           flagResetReceived(task[t].s, task[t].op, task[t].to, task[t].kind)
    /\ UNCHANGED << server, state, closed, numStreams, remoteNumStreams, now >>
    /\ Return(t, nil, task[t].to)

\* The frames the tasks handle: those that open, half-close, close and
\* reset a stream, and those a closed stream tolerates.
ConcFrame ==
    { [kind |-> FrameHeaders, EndStream |-> FALSE],
      [kind |-> FrameHeaders, EndStream |-> TRUE],
      [kind |-> FrameData, EndStream |-> TRUE],
      [kind |-> FrameRSTStream, EndStream |-> FALSE],
      [kind |-> FramePriority, EndStream |-> FALSE],
      [kind |-> FrameWindowUpdate, EndStream |-> FALSE] }

\* The tolerance period passes, and a second more.
TickPastGrace ==
    /\ now + closedGraceSeconds + 1 <= MaxTime
    /\ now' = now + closedGraceSeconds + 1
    /\ ret' = NoCall
    /\ UNCHANGED << server, state, resetSent, resetReceived, closed,
                    numStreams, remoteNumStreams, task >>

(***************************************************************************)
(* The send flow controllers (remoteFlowController) of the connection,     *)
(* id 0, and of its streams, and the producers inside allocateBytes.        *)
(* Window sizes are scaled down: defaultInitialWindowSize stands for 65535  *)
(* and maxInitialWindowSize for 2^31-1, both odd as these are.              *)
(***************************************************************************)
defaultInitialWindowSize == 3

maxInitialWindowSize == 5

\* The number of events from outside the producers: WINDOW_UPDATE frames,
\* INITIAL_WINDOW_SIZE changes and closes of a stream or of the connection.
MaxUpdates == 1

\* The byte counts a producer asks for: none, less than none, one byte, a
\* whole initial window.
AllocSizes == {0 - 1, 0, 1, defaultInitialWindowSize}

\* The increments of a WINDOW_UPDATE, and the changes of INITIAL_WINDOW_SIZE.
WindowIncrements == {1, maxInitialWindowSize}

InitialWindowChanges == {0 - 1, 1}

FlowStreamIDs == {1, 3}

FlowIDs == {0} \cup FlowStreamIDs

Producers == {"p1", "p2"}

VARIABLES
    sendFlow,      \* per id, the remoteFlowController: win and winCh
    closeCh,       \* per stream, whether stream.closeCh is closed
    connCloseCh,   \* whether conn.closeCh is closed
    prod,          \* per producer, its position inside allocateBytes
    granted,       \* per stream, the bytes allocateBytes has returned
    credited,      \* per id, the initial window plus the increments accepted
    updates,       \* the events from outside the producers so far
    sret           \* what the call that returned in this step returned

sendVars ==
    << sendFlow, closeCh, connCloseCh, prod, granted, credited, updates, sret >>

\* The credit a controller holds: win and what is parked in winCh.
parked(fc) == IF fc.winCh = << >> THEN 0 ELSE Head(fc.winCh)

available(fc) == fc.win + parked(fc)

\* The capacity of winCh.
winChCap == 1

overflowError(id) ==
    IF id = 0 THEN ConnError(ErrCodeFlowControl)
    ELSE StreamError(ErrCodeFlowControl)

\* A slip: the credit sent on winCh stays in win as well.
updateWindowKeepsWin(fc, id, delta, reset) ==
    IF delta > 0 /\ maxInitialWindowSize - delta < fc.win
    THEN [fc |-> fc, err |-> overflowError(id)]
    ELSE LET drained == IF reset /\ fc.winCh # << >>
                        THEN [win |-> fc.win + Head(fc.winCh), winCh |-> << >>]
                        ELSE fc
             added == [drained EXCEPT !.win = @ + delta]
         IN
         IF added.win <= 0 THEN [fc |-> added, err |-> nil]
         ELSE IF Len(added.winCh) < winChCap
         THEN [fc |-> [win |-> added.win, winCh |-> << added.win >>],
               err |-> nil]
         ELSE [fc |-> added, err |-> nil]

\* A slip: a change of the initial window drops the credit parked in the
\* channel instead of taking it back.
updateWindowDropsParked(fc, id, delta, reset) ==
    IF delta > 0 /\ maxInitialWindowSize - delta < fc.win
    THEN [fc |-> fc, err |-> overflowError(id)]
    ELSE LET drained == IF reset /\ fc.winCh # << >>
                        THEN [win |-> fc.win, winCh |-> << >>]
                        ELSE fc
             added == [drained EXCEPT !.win = @ + delta]
         IN
         IF added.win <= 0 THEN [fc |-> added, err |-> nil]
         ELSE IF Len(added.winCh) < winChCap
         THEN [fc |-> [win |-> 0, winCh |-> Append(added.winCh, added.win)],
               err |-> nil]
         ELSE [fc |-> added, err |-> nil]

\* remoteFlowController.updateWindow, under the controller's lock.
updateWindow(fc, id, delta, reset) ==
    IF delta > 0 /\ maxInitialWindowSize - delta < fc.win
    THEN [fc |-> fc, err |-> overflowError(id)]
    ELSE LET drained == IF reset /\ fc.winCh # << >>
                        THEN [win |-> fc.win + Head(fc.winCh), winCh |-> << >>]
                        ELSE fc
             added == [drained EXCEPT !.win = @ + delta]
         IN
         IF added.win <= 0 THEN [fc |-> added, err |-> nil]
         ELSE IF Len(added.winCh) < winChCap
         THEN [fc |-> [win |-> 0, winCh |-> Append(added.winCh, added.win)],
               err |-> nil]
         ELSE [fc |-> added, err |-> nil]

incrementWindow(fc, id, delta) == updateWindow(fc, id, delta, FALSE)

incrementInitialWindow(fc, id, delta) == updateWindow(fc, id, delta, TRUE)

\* A slip: cancel empties the channel and forgets the credit.
cancelDropsParked(fc) ==
    IF fc.winCh # << >> THEN [win |-> fc.win, winCh |-> Tail(fc.winCh)]
    ELSE fc

\* remoteFlowController.cancel
cancel(fc) ==
    IF fc.winCh # << >>
    THEN [win |-> fc.win + Head(fc.winCh), winCh |-> Tail(fc.winCh)]
    ELSE fc

\* <-c.windowCh(): the controller after the receive.
received(fc) == [fc EXCEPT !.winCh = Tail(@)]

errStreamClosed == [kind |-> "local", code |-> "stream closed"]

ErrClosed == [kind |-> "local", code |-> "connection closed"]

IdleProducer == [pc |-> "idle", s |-> 0, n |-> 0, sw |-> 0, cw |-> 0]

SendReturned(op, id, n, err) == [op |-> op, id |-> id, n |-> n, err |-> err]

NoSendCall == SendReturned("none", 0, 0, nil)

\* A new controller holds the initial window, taken here as the default.
SendInit ==
    /\ sendFlow = [c \in FlowIDs |->
                       [win |-> defaultInitialWindowSize, winCh |-> << >>]]
    /\ closeCh = [s \in FlowStreamIDs |-> FALSE]
    /\ connCloseCh = FALSE
    /\ prod = [p \in Producers |-> IdleProducer]
    /\ granted = [s \in FlowStreamIDs |-> 0]
    /\ credited = [c \in FlowIDs |-> defaultInitialWindowSize]
    /\ updates = 0
    /\ sret = NoSendCall

\* allocateBytes returns: the producer is done (each producer asks for
\* bytes once), and the bytes are counted.
AllocReturn(p, n, err) ==
    /\ prod' = [prod EXCEPT ![p] = [IdleProducer EXCEPT !.pc = "done"]]
    /\ granted' = IF err = nil /\ n > 0
                  THEN [granted EXCEPT ![prod[p].s] = @ + n]
                  ELSE granted
    /\ sret' = SendReturned("allocateBytes", prod[p].s, n, err)

\* allocateBytes(stream, n) with n <= 0.
AllocNothing(p, s, n) ==
    /\ prod[p].pc = "idle"
    /\ n <= 0
    /\ sret' = SendReturned("allocateBytes", s, 0, nil)
    /\ UNCHANGED << sendFlow, closeCh, connCloseCh, prod, granted, credited,
                    updates >>

\* A slip: the two awaits in the reverse order, the connection's credit
\* claimed before the stream's.
AllocCallConnFirst(p, s, n) ==
    /\ prod[p].pc = "idle"
    /\ n > 0
    /\ available(sendFlow[0]) > 0
    /\ sendFlow' = [sendFlow EXCEPT ![s] = incrementWindow(@, s, 0).fc,
                                    ![0] = [win |-> 0, winCh |-> << >>]]
    /\ prod' = [prod EXCEPT ![p] = [IdleProducer EXCEPT
                                        !.pc = "awaitStream", !.s = s, !.n = n,
                                        !.cw = available(sendFlow[0])]]
    /\ sret' = NoSendCall
    /\ UNCHANGED << closeCh, connCloseCh, granted, credited, updates >>

\* allocateBytes(stream, n) up to s.incrementWindow(0).
AllocCall(p, s, n) ==
    /\ prod[p].pc = "idle"
    /\ n > 0
    /\ sendFlow' = [sendFlow EXCEPT ![s] = incrementWindow(@, s, 0).fc]
    /\ prod' = [prod EXCEPT ![p] = [IdleProducer EXCEPT !.pc = "awaitStream",
                                                        !.s = s, !.n = n]]
    /\ sret' = NoSendCall
    /\ UNCHANGED << closeCh, connCloseCh, granted, credited, updates >>

\* The first select: case <-stream.closeCh
AwaitStreamClosed(p) ==
    /\ prod[p].pc = "awaitStream"
    /\ closeCh[prod[p].s]
    /\ AllocReturn(p, 0, errStreamClosed)
    /\ UNCHANGED << sendFlow, closeCh, connCloseCh, credited, updates >>

\* The first select: case <-stream.conn.closeCh
AwaitStreamConnClosed(p) ==
    /\ prod[p].pc = "awaitStream"
    /\ connCloseCh
    /\ AllocReturn(p, 0, ErrClosed)
    /\ UNCHANGED << sendFlow, closeCh, connCloseCh, credited, updates >>

\* The first select: case sw = <-s.windowCh()
AwaitStreamCredit(p) ==
    /\ prod[p].pc = "awaitStream"
    /\ sendFlow[prod[p].s].winCh # << >>
    /\ prod' = [prod EXCEPT ![p].pc = "incrementConn",
                            ![p].sw = Head(sendFlow[prod[p].s].winCh)]
    /\ sendFlow' = [sendFlow EXCEPT ![prod[p].s] = received(@)]
    /\ sret' = NoSendCall
    /\ UNCHANGED << closeCh, connCloseCh, granted, credited, updates >>

\* c.incrementWindow(0)
IncrementConn(p) ==
    /\ prod[p].pc = "incrementConn"
    /\ sendFlow' = [sendFlow EXCEPT ![0] = incrementWindow(@, 0, 0).fc]
    /\ prod' = [prod EXCEPT ![p].pc = "awaitConn"]
    /\ sret' = NoSendCall
    /\ UNCHANGED << closeCh, connCloseCh, granted, credited, updates >>

\* The second select: case <-stream.closeCh, with c.cancel()
AwaitConnClosed(p) ==
    /\ prod[p].pc = "awaitConn"
    /\ closeCh[prod[p].s]
    /\ sendFlow' = [sendFlow EXCEPT ![0] = cancel(@)]
    /\ AllocReturn(p, 0, errStreamClosed)
    /\ UNCHANGED << closeCh, connCloseCh, credited, updates >>

\* The second select: case <-stream.conn.closeCh
AwaitConnConnClosed(p) ==
    /\ prod[p].pc = "awaitConn"
    /\ connCloseCh
    /\ AllocReturn(p, 0, ErrClosed)
    /\ UNCHANGED << sendFlow, closeCh, connCloseCh, credited, updates >>

\* if sw < n { n = sw }; if cw < n { n = cw }
grant(n, sw, cw) ==
    LET n1 == IF sw < n THEN sw ELSE n IN
    IF cw < n1 THEN cw ELSE n1

\* The second select: case cw = <-c.windowCh(), and the grant.
AwaitConnCredit(p) ==
    /\ prod[p].pc = "awaitConn"
    /\ sendFlow[0].winCh # << >>
    /\ LET cw == Head(sendFlow[0].winCh)
           n == grant(prod[p].n, prod[p].sw, cw)
       IN
       /\ sendFlow' = [sendFlow EXCEPT ![0] = received(@)]
       /\ IF n < prod[p].sw \/ n < cw
          THEN /\ prod' = [prod EXCEPT
                               ![p].pc = IF n < prod[p].sw THEN "returnStream"
                                         ELSE "returnConn",
                               ![p].cw = cw, ![p].n = n]
               /\ sret' = NoSendCall
               /\ UNCHANGED granted
          ELSE AllocReturn(p, n, nil)
    /\ UNCHANGED << closeCh, connCloseCh, credited, updates >>

\* if n < sw { s.incrementWindow(sw - n) }
ReturnStream(p) ==
    /\ prod[p].pc = "returnStream"
    /\ sendFlow' = [sendFlow EXCEPT ![prod[p].s] =
                        incrementWindow(@, prod[p].s, prod[p].sw - prod[p].n).fc]
    /\ IF prod[p].n < prod[p].cw
       THEN /\ prod' = [prod EXCEPT ![p].pc = "returnConn"]
            /\ sret' = NoSendCall
            /\ UNCHANGED granted
       ELSE AllocReturn(p, prod[p].n, nil)
    /\ UNCHANGED << closeCh, connCloseCh, credited, updates >>

\* if n < cw { c.incrementWindow(cw - n) }; return n, nil
ReturnConn(p) ==
    /\ prod[p].pc = "returnConn"
    /\ sendFlow' = [sendFlow EXCEPT ![0] =
                        incrementWindow(@, 0, prod[p].cw - prod[p].n).fc]
    /\ AllocReturn(p, prod[p].n, nil)
    /\ UNCHANGED << closeCh, connCloseCh, credited, updates >>

\* A WINDOW_UPDATE of the peer: incrementWindow(delta) on the controller.
WindowUpdate(c, delta) ==
    /\ updates < MaxUpdates
    /\ updates' = updates + 1
    /\ LET u == incrementWindow(sendFlow[c], c, delta) IN
       /\ sendFlow' = [sendFlow EXCEPT ![c] = u.fc]
       /\ credited' = IF u.err = nil THEN [credited EXCEPT ![c] = @ + delta]
                      ELSE credited
       /\ sret' = SendReturned("incrementWindow", c, delta, u.err)
    /\ UNCHANGED << closeCh, connCloseCh, prod, granted >>

\* Conn.setInitialSendWindow(delta), for one writable stream.
SetInitialSendWindow(s, delta) ==
    /\ ~closeCh[s]
    /\ delta # 0
    /\ updates < MaxUpdates
    /\ updates' = updates + 1
    /\ LET u == incrementInitialWindow(sendFlow[s], s, delta) IN
       /\ sendFlow' = [sendFlow EXCEPT ![s] = u.fc]
       /\ credited' = IF u.err = nil /\ delta > 0
                      THEN [credited EXCEPT ![s] = @ + delta]
                      ELSE credited
       /\ sret' = SendReturned("incrementInitialWindow", s, delta, u.err)
    /\ UNCHANGED << closeCh, connCloseCh, prod, granted >>

\* The stream is closed or reset: its closeCh is closed.
StreamClosed(s) ==
    /\ ~closeCh[s]
    /\ updates < MaxUpdates
    /\ updates' = updates + 1
    /\ closeCh' = [closeCh EXCEPT ![s] = TRUE]
    /\ sret' = NoSendCall
    /\ UNCHANGED << sendFlow, connCloseCh, prod, granted, credited >>

\* The connection is closed: conn.closeCh is closed.
ConnClosed ==
    /\ ~connCloseCh
    /\ updates < MaxUpdates
    /\ updates' = updates + 1
    /\ connCloseCh' = TRUE
    /\ sret' = NoSendCall
    /\ UNCHANGED << sendFlow, closeCh, prod, granted, credited >>

\* Stream 1 has spent its send window, stream 3 has not, and the connection
\* has been given credit since: the state after earlier calls granted the
\* whole window of stream 1 and the peer sent WINDOW_UPDATE on stream 0.
ExhaustedInit ==
    /\ \E cw \in 1..defaultInitialWindowSize :
           /\ sendFlow = [c \in FlowIDs |->
                              [win |-> IF c = 0 THEN cw
                                       ELSE IF c = 1 THEN 0
                                       ELSE defaultInitialWindowSize,
                               winCh |-> << >>]]
           /\ credited = [c \in FlowIDs |->
                              IF c = 0 THEN defaultInitialWindowSize + cw
                              ELSE defaultInitialWindowSize]
    /\ granted = [s \in FlowStreamIDs |->
                      IF s = 1 THEN defaultInitialWindowSize ELSE 0]
    /\ closeCh = [s \in FlowStreamIDs |-> FALSE]
    /\ connCloseCh = FALSE
    /\ prod = [p \in Producers |-> IdleProducer]
    /\ updates = 0
    /\ sret = NoSendCall

\* The stream each producer writes to while stream 1 is exhausted.
streamOf == [p \in Producers |-> IF p = "p1" THEN 1 ELSE 3]

\* The steps of producer p inside allocateBytes, none of them a close.
ProducerStep(p) ==
    \/ AwaitStreamCredit(p)
    \/ IncrementConn(p)
    \/ AwaitConnCredit(p)
    \/ ReturnStream(p)
    \/ ReturnConn(p)

(***************************************************************************)
(* The receive flow controllers (flowController) of the connection, id 0,  *)
(* and of its streams.                                                      *)
(***************************************************************************)
VARIABLES
    recvFlow,      \* per id: win, winLowerBound, winUpperBound, processedWin
    writeQueue,    \* the WINDOW_UPDATE frames the step added to the queue
    recvUpdates,   \* the window and initial window changes so far
    returned,      \* per id, the bytes returned since its last WINDOW_UPDATE
    rret           \* what the call that returned in this step returned

recvVars == << recvFlow, writeQueue, recvUpdates, returned, rret >>

\* The streams that receive DATA, and the controllers: 0 is the connection's.
RecvStreamIDs == {1}

RecvIDs == {0} \cup RecvStreamIDs

\* The byte counts of a consumeBytes or returnBytes call.
RecvSizes == {0, 1, defaultInitialWindowSize}

RecvReturned(op, id, n, err) == [op |-> op, id |-> id, n |-> n, err |-> err]

NoRecvCall == RecvReturned("none", 0, 0, nil)

\* A new controller holds the initial window, taken here as the default.
RecvInit ==
    /\ recvFlow = [c \in RecvIDs |->
                       [win |-> defaultInitialWindowSize,
                        winLowerBound |-> 0,
                        winUpperBound |-> defaultInitialWindowSize,
                        processedWin |-> defaultInitialWindowSize]]
    /\ writeQueue = << >>
    /\ recvUpdates = 0
    /\ returned = [c \in RecvIDs |-> 0]
    /\ rret = NoRecvCall

windowLimitError(id) ==
    IF id = 0 THEN ConnError(ErrCodeFlowControl)
    ELSE StreamError(ErrCodeFlowControl)

tooManyBytesError(id) ==
    IF id = 0 THEN ConnError(ErrCodeInternal) ELSE StreamError(ErrCodeInternal)

\* A slip: a window that reaches its lower bound is an error already.
consumeWindowAtBound(fc, id, n) ==
    LET used == [fc EXCEPT !.win = @ - n] IN
    IF used.win <= used.winLowerBound
    THEN [fc |-> used, err |-> windowLimitError(id)]
    ELSE [fc |-> used, err |-> nil]

\* flowController.consumeBytes on one controller: c.win -= n and the test
\* against c.winLowerBound.
consumeWindow(fc, id, n) ==
    LET used == [fc EXCEPT !.win = @ - n] IN
    IF used.win < used.winLowerBound
    THEN [fc |-> used, err |-> windowLimitError(id)]
    ELSE [fc |-> used, err |-> nil]

\* flowController.consumeBytes(n) on the controller of id: the connection's
\* controller first, for a stream.  rf is recvFlow.
consumeBytes(rf, id, n) ==
    IF n <= 0 THEN [rf |-> rf, err |-> nil]
    ELSE IF id # 0
    THEN LET conn == consumeWindow(rf[0], 0, n)
             own == consumeWindow(rf[id], id, n)
         IN
         IF conn.err # nil
         THEN [rf |-> [rf EXCEPT ![0] = conn.fc], err |-> conn.err]
         ELSE [rf |-> [rf EXCEPT ![0] = conn.fc, ![id] = own.fc],
               err |-> own.err]
    ELSE LET own == consumeWindow(rf[0], 0, n) IN
         [rf |-> [rf EXCEPT ![0] = own.fc], err |-> own.err]

\* flowController.updateWindow
recvUpdateWindow(fc, delta) ==
    IF delta > 0 /\ maxInitialWindowSize - delta < fc.win
    THEN [fc |-> fc, ok |-> FALSE]
    ELSE [fc |-> [fc EXCEPT !.win = @ + delta,
                            !.processedWin = @ + delta,
                            !.winLowerBound = IF delta < 0 THEN delta ELSE 0],
          ok |-> TRUE]

\* flowController.updateInitialWindow
updateInitialWindow(fc, delta) ==
    LET n0 == fc.winUpperBound + delta
        n1 == IF n0 < defaultInitialWindowSize
              THEN defaultInitialWindowSize ELSE n0
        n2 == IF n1 > maxInitialWindowSize THEN maxInitialWindowSize ELSE n1
    IN [fc EXCEPT !.winUpperBound = n2]

\* int(float32(c.winUpperBound) * windowUpdateRatio), for a positive bound
\* that float32 holds exactly.
threshold(fc) == fc.winUpperBound \div 2

\* A slip: no WINDOW_UPDATE while processedWin is at the threshold.
windowUpdateBelowThreshold(fc, id) ==
    IF fc.winUpperBound <= 0 \/ fc.processedWin >= threshold(fc)
    THEN [fc |-> fc, err |-> nil, frames |-> << >>]
    ELSE LET delta == fc.winUpperBound - fc.processedWin
             u == recvUpdateWindow(fc, delta)
         IN
         IF ~u.ok
         THEN [fc |-> fc, err |-> ConnError(ErrCodeInternal), frames |-> << >>]
         ELSE [fc |-> u.fc, err |-> nil,
               frames |-> << [id |-> id, increment |-> delta] >>]

\* flowController.windowUpdate: the controller, the error and the frames
\* added to the write queue.
windowUpdate(fc, id) ==
    IF fc.winUpperBound <= 0 \/ fc.processedWin > threshold(fc)
    THEN [fc |-> fc, err |-> nil, frames |-> << >>]
    ELSE LET delta == fc.winUpperBound - fc.processedWin
             u == recvUpdateWindow(fc, delta)
         IN
         IF ~u.ok
         THEN [fc |-> fc, err |-> ConnError(ErrCodeInternal), frames |-> << >>]
         ELSE [fc |-> u.fc, err |-> nil,
               frames |-> << [id |-> id, increment |-> delta] >>]

\* A slip: the bytes returned are not compared with the bytes consumed.
returnWindowUnchecked(fc, id, delta) ==
    windowUpdate([fc EXCEPT !.processedWin = @ - delta], id)

\* flowController.returnBytes on one controller.
returnWindow(fc, id, delta) ==
    IF fc.processedWin - delta < fc.win
    THEN [fc |-> fc, err |-> tooManyBytesError(id), frames |-> << >>]
    ELSE windowUpdate([fc EXCEPT !.processedWin = @ - delta], id)

\* flowController.returnBytes(delta) on the controller of id: the
\* connection's controller first, for a stream.
returnBytes(rf, id, delta) ==
    IF id # 0
    THEN LET conn == returnWindow(rf[0], 0, delta)
             own == returnWindow(rf[id], id, delta)
         IN
         IF conn.err # nil
         THEN [rf |-> [rf EXCEPT ![0] = conn.fc], err |-> conn.err,
               frames |-> conn.frames]
         ELSE [rf |-> [rf EXCEPT ![0] = conn.fc, ![id] = own.fc],
               err |-> own.err, frames |-> conn.frames \o own.frames]
    ELSE LET own == returnWindow(rf[0], 0, delta) IN
         [rf |-> [rf EXCEPT ![0] = own.fc], err |-> own.err,
          frames |-> own.frames]

\* flowController.incrementWindow
recvIncrementWindow(fc, id, delta) ==
    windowUpdate(updateInitialWindow(fc, delta), id)

\* flowController.incrementInitialWindow
recvIncrementInitialWindow(fc, id, delta) ==
    IF id = 0 THEN [fc |-> fc, err |-> nil]
    ELSE LET u == recvUpdateWindow(fc, delta) IN
         IF u.ok THEN [fc |-> updateInitialWindow(u.fc, delta), err |-> nil]
         ELSE [fc |-> fc, err |-> LocalError]

\* Whether frames holds a WINDOW_UPDATE of controller id.
announces(frames, id) == \E i \in 1..Len(frames) : frames[i].id = id

\* Whether returnBytes(delta) passes the test against c.win.
takesBack(fc, delta) == fc.processedWin - delta >= fc.win

\* A DATA frame of n bytes is received on a stream.  A window is followed
\* down to the negated largest window.
ConsumeBytes(s, n) ==
    LET r == consumeBytes(recvFlow, s, n) IN
    /\ \A c \in {0, s} : r.rf[c].win >= 0 - maxInitialWindowSize
    /\ recvFlow' = r.rf
    /\ writeQueue' = << >>
    /\ rret' = RecvReturned("consumeBytes", s, n, r.err)
    /\ UNCHANGED << recvUpdates, returned >>

\* The application has taken delta bytes of a stream.
ReturnBytes(s, delta) ==
    LET r == returnBytes(recvFlow, s, delta)
        conn == returnWindow(recvFlow[0], 0, delta)
        called == [c \in RecvIDs |-> c = 0 \/ (c = s /\ conn.err = nil)]
    IN
    /\ recvFlow' = r.rf
    /\ writeQueue' = r.frames
    /\ returned' = [c \in RecvIDs |->
                        IF announces(r.frames, c) THEN 0
                        ELSE IF called[c] /\ takesBack(recvFlow[c], delta)
                        THEN returned[c] + delta
                        ELSE returned[c]]
    /\ rret' = RecvReturned("returnBytes", s, delta, r.err)
    /\ UNCHANGED recvUpdates

\* The window of a controller is enlarged or reduced by delta.
IncrementRecvWindow(c, delta) ==
    LET r == recvIncrementWindow(recvFlow[c], c, delta) IN
    /\ recvUpdates < MaxUpdates
    /\ recvUpdates' = recvUpdates + 1
    /\ recvFlow' = [recvFlow EXCEPT ![c] = r.fc]
    /\ writeQueue' = r.frames
    /\ returned' = [returned EXCEPT ![c] = IF announces(r.frames, c) THEN 0
                                           ELSE @]
    /\ rret' = RecvReturned("incrementWindow", c, delta, r.err)

\* Conn.setInitialRecvWindow(delta), for one stream.
SetInitialRecvWindow(c, delta) ==
    LET r == recvIncrementInitialWindow(recvFlow[c], c, delta) IN
    /\ recvUpdates < MaxUpdates
    /\ recvUpdates' = recvUpdates + 1
    /\ recvFlow' = [recvFlow EXCEPT ![c] = r.fc]
    /\ writeQueue' = << >>
    /\ rret' = RecvReturned("incrementInitialWindow", c, delta, r.err)
    /\ UNCHANGED returned

(***************************************************************************)
(* stream.transition as a function of its inputs: the stream starts in any *)
(* state with any reset flags, closed just now or never, and receives any  *)
(* frame type with either value of endStream.                               *)
(***************************************************************************)
TransitionInit ==
    /\ server \in BOOLEAN
    /\ state \in [StreamIDs -> StreamState]
    /\ resetSent \in [StreamIDs -> BOOLEAN]
    /\ resetReceived \in [StreamIDs -> BOOLEAN]
    /\ closed \in [StreamIDs -> {zeroTime, 0}]
    /\ numStreams = 0
    /\ remoteNumStreams = 0
    /\ now \in {0, MaxTime}
    /\ ret = NoCall

ReceiveAny(s, frameType, endStream) == transition(s, recv, frameType, endStream)

SendAny(s, frameType, endStream) == transition(s, send, frameType, endStream)

(***************************************************************************)
(* Settings: the ordered list of (ID, Value) pairs of a peer, written by   *)
(* SetValue and read by Value.  INITIAL_WINDOW_SIZE is scaled as the        *)
(* windows of the flow controllers are; the frame sizes keep their values,  *)
(* so that every frame size lies above the largest window of the model.     *)
(***************************************************************************)
SettingHeaderTableSize == "HEADER_TABLE_SIZE"
SettingEnablePush == "ENABLE_PUSH"
SettingInitialWindowSize == "INITIAL_WINDOW_SIZE"
SettingMaxFrameSize == "MAX_FRAME_SIZE"

SettingIDs ==
    { SettingHeaderTableSize, SettingEnablePush, SettingInitialWindowSize,
      SettingMaxFrameSize }

maxFrameSizeLowerBound == 16384
maxFrameSizeUpperBound == 16777215

defaultHeaderTableSize == 4096
defaultEnablePush == 1
defaultMaxFrameSize == maxFrameSizeLowerBound

\* The values SetValue is called with: for an id with a limit those on both
\* sides of it, and a small and a large one for an id without.
SettingValues ==
    [id \in SettingIDs |->
        CASE id = SettingEnablePush -> {0, 1, 2}
          [] id = SettingInitialWindowSize ->
                 {0, maxInitialWindowSize, maxInitialWindowSize + 1}
          [] id = SettingMaxFrameSize ->
                 { maxFrameSizeLowerBound - 1, maxFrameSizeLowerBound,
                   maxFrameSizeUpperBound, maxFrameSizeUpperBound + 1 }
          [] OTHER -> {0, maxFrameSizeUpperBound + 1}]

VARIABLES
    settings,   \* the Settings value: a sequence of [ID, Value]
    accepted,   \* per id, the value of the last SetValue that returned nil
    setret      \* what the call that returned in this step returned

settingsVars == << settings, accepted, setret >>

\* No SetValue has returned nil for the id yet.
NoValue == 0 - 1

SettingsReturned(op, id, value, err) ==
    [op |-> op, id |-> id, value |-> value, err |-> err]

NoSettingsCall == SettingsReturned("none", SettingHeaderTableSize, 0, nil)

SettingsInit ==
    /\ settings = << >>
    /\ accepted = [id \in SettingIDs |-> NoValue]
    /\ setret = NoSettingsCall

\* The switch of SetValue: ok.
validSetting(id, value) ==
    CASE id = SettingEnablePush -> value < 2
      [] id = SettingInitialWindowSize -> value <= maxInitialWindowSize
      [] id = SettingMaxFrameSize ->
             maxFrameSizeLowerBound <= value /\ value <= maxFrameSizeUpperBound
      [] OTHER -> TRUE

\* The index of the first entry with the id, 0 when there is none.
indexOf(s, id) ==
    IF \E i \in 1..Len(s) : s[i].ID = id
    THEN CHOOSE i \in 1..Len(s) :
             /\ s[i].ID = id
             /\ \A j \in 1..(i - 1) : s[j].ID # id
    ELSE 0

\* Settings.value
value(s, id) ==
    IF indexOf(s, id) # 0
    THEN [v |-> s[indexOf(s, id)].Value, exists |-> TRUE]
    ELSE [v |-> 0, exists |-> FALSE]

\* Settings.Value: the stored value, or the default of the id.
Value(s, id) ==
    IF value(s, id).exists THEN value(s, id).v
    ELSE CASE id = SettingHeaderTableSize -> defaultHeaderTableSize
           [] id = SettingEnablePush -> defaultEnablePush
           [] id = SettingInitialWindowSize -> defaultInitialWindowSize
           [] id = SettingMaxFrameSize -> defaultMaxFrameSize
           [] OTHER -> 0

\* A slip: SetValue appends an entry whether or not the id has one.
setValueAppends(s, id, v) ==
    IF ~validSetting(id, v) THEN [settings |-> s, err |-> LocalError]
    ELSE [settings |-> Append(s, [ID |-> id, Value |-> v]), err |-> nil]

\* Settings.SetValue: the settings after the call, and the error.
setValue(s, id, v) ==
    IF ~validSetting(id, v) THEN [settings |-> s, err |-> LocalError]
    ELSE IF indexOf(s, id) # 0
    THEN [settings |-> [s EXCEPT ![indexOf(s, id)].Value = v], err |-> nil]
    ELSE [settings |-> Append(s, [ID |-> id, Value |-> v]), err |-> nil]

SetValue(id, v) ==
    LET r == setValue(settings, id, v) IN
    /\ settings' = r.settings
    /\ accepted' = IF r.err = nil THEN [accepted EXCEPT ![id] = v] ELSE accepted
    /\ setret' = SettingsReturned("SetValue", id, v, r.err)

ReadValue(id) ==
    /\ setret' = SettingsReturned("Value", id, Value(settings, id), nil)
    /\ UNCHANGED << settings, accepted >>

(***************************************************************************)
(* Runs of INITIAL_WINDOW_SIZE changes on a stream that receives DATA: the  *)
(* window the stream had before the current run, and the changes so far.    *)
(***************************************************************************)
\* The changes of the initial window that are followed.
MaxChanges == 2

VARIABLES
    fitted,     \* per stream, win before the current run of changes
    changes     \* the changes of the initial window so far

shrinkVars == << fitted, changes >>

ShrinkInit ==
    /\ fitted = [s \in RecvStreamIDs |-> defaultInitialWindowSize]
    /\ changes = 0

\* flowController.incrementInitialWindow(delta) on a stream, as
\* Conn.setInitialRecvWindow calls it: the run goes on.
ChangeInitialWindow(s, delta) ==
    LET r == recvIncrementInitialWindow(recvFlow[s], s, delta) IN
    /\ changes < MaxChanges
    /\ changes' = changes + 1
    /\ recvFlow' = [recvFlow EXCEPT ![s] = r.fc]
    /\ writeQueue' = << >>
    /\ rret' = RecvReturned("incrementInitialWindow", s, delta, r.err)
    /\ UNCHANGED << recvUpdates, returned, fitted >>

\* DATA of n bytes received on a stream: the run of changes is over.
ConsumeAfterChanges(s, n) ==
    /\ ConsumeBytes(s, n)
    /\ fitted' = [fitted EXCEPT ![s] = recvFlow'[s].win]
    /\ UNCHANGED changes

\* The application has taken delta bytes: the run of changes is over.
ReturnAfterChanges(s, delta) ==
    /\ ReturnBytes(s, delta)
    /\ fitted' = [fitted EXCEPT ![s] = recvFlow'[s].win]
    /\ UNCHANGED changes

(***************************************************************************)
(* The StateClosed branch of stream.compareAndSwapState, and the counter    *)
(* of its other branch: how often each of its effects has happened to a     *)
(* stream.  conn.cancelStream and conn.removeStream are followed as calls.  *)
(***************************************************************************)
VARIABLES
    closeEffects   \* per stream, the number of times each effect happened

closeVars == << closeEffects >>

NoEffects ==
    [increment |-> 0, decrement |-> 0, closed |-> 0, cancelStream |-> 0,
     removeStream |-> 0]

CloseInit == closeEffects = [s \in StreamIDs |-> NoEffects]

\* atomic.AddUint32(&s.conn.numStreams, 1) or (..., ^uint32(0)), of either
\* side's counter.
countEffect(ce, s, from, to) ==
    IF becomesActive(from, to) THEN [ce EXCEPT ![s].increment = @ + 1]
    ELSE IF leavesActive(from, to) THEN [ce EXCEPT ![s].decrement = @ + 1]
    ELSE ce

\* s.closed = time.Now(); s.conn.cancelStream(s); s.conn.removeStream(s)
armEffect(ce, s, from, to) ==
    IF armsClosed(from, to)
    THEN [ce EXCEPT ![s].closed = @ + 1, ![s].cancelStream = @ + 1,
                    ![s].removeStream = @ + 1]
    ELSE ce

\* The step of a task that adds to a counter.
TaskCountEffect(t) ==
    /\ TaskCount(t)
    /\ closeEffects' =
           countEffect(closeEffects, task[t].s, task[t].from, task[t].to)

\* The step of a task that arms the closed timestamp, cancels the stream's
\* pending sends and removes the stream from the registry.
TaskArmEffect(t) ==
    /\ TaskArm(t)
    /\ closeEffects' =
           armEffect(closeEffects, task[t].s, task[t].from, task[t].to)

(***************************************************************************)
(* Several streams of both sides, for the counters of active streams.       *)
(***************************************************************************)
CountedStreamIDs == {1, 2, 3}

CountedInit ==
    /\ server \in BOOLEAN
    /\ state = [s \in CountedStreamIDs |-> StateIdle]
    /\ resetSent = [s \in CountedStreamIDs |-> FALSE]
    /\ resetReceived = [s \in CountedStreamIDs |-> FALSE]
    /\ closed = [s \in CountedStreamIDs |-> zeroTime]
    /\ numStreams = 0
    /\ remoteNumStreams = 0
    /\ now = 0
    /\ ret = NoCall

(***************************************************************************)
(* The specifications.                                                      *)
(***************************************************************************)
\* The variables of the settings, of the runs of window changes and of the
\* effects of a close.
auxVars == << settingsVars, shrinkVars, closeVars >>

AuxInit == SettingsInit /\ ShrinkInit /\ CloseInit

vars == << streamVars, sendVars, recvVars, auxVars >>

\* A connection with its stream, nothing sent or received yet.
Init == StreamInit /\ TaskInit /\ SendInit /\ RecvInit /\ AuxInit

\* The operations of a stream, one call a step.
StreamNext ==
    \/ \E s \in StreamIDs, f \in Frame : Receive(s, f)
           /\ UNCHANGED << sendVars, recvVars, auxVars >>
    \/ \E s \in StreamIDs, f \in Frame : Send(s, f)
           /\ UNCHANGED << sendVars, recvVars, auxVars >>
    \/ \E s \in StreamIDs : Close(s)
           /\ UNCHANGED << sendVars, recvVars, auxVars >>
    \/ Tick /\ UNCHANGED << sendVars, recvVars, auxVars >>

SpecStream == Init /\ [][StreamNext]_vars

\* The reader, the writer and a task calling close(), step by step.
ConcNext ==
    \/ \E t \in TaskIDs, s \in StreamIDs, f \in ConcFrame : TaskCall(t, s, f)
           /\ UNCHANGED << sendVars, recvVars, auxVars >>
    \/ \E t \in TaskIDs, s \in StreamIDs : TaskClose(t, s)
           /\ UNCHANGED << sendVars, recvVars, auxVars >>
    \/ \E t \in TaskIDs : TaskReload(t)
           /\ UNCHANGED << sendVars, recvVars, auxVars >>
    \/ \E t \in TaskIDs : TaskReadResetReceived(t)
           /\ UNCHANGED << sendVars, recvVars, auxVars >>
    \/ \E t \in TaskIDs : TaskReadResetSent(t)
           /\ UNCHANGED << sendVars, recvVars, auxVars >>
    \/ \E t \in TaskIDs : TaskReadClosed(t)
           /\ UNCHANGED << sendVars, recvVars, auxVars >>
    \/ \E t \in TaskIDs : TaskCAS(t)
           /\ UNCHANGED << sendVars, recvVars, auxVars >>
    \/ \E t \in TaskIDs : TaskCount(t)
           /\ UNCHANGED << sendVars, recvVars, auxVars >>
    \/ \E t \in TaskIDs : TaskArm(t)
           /\ UNCHANGED << sendVars, recvVars, auxVars >>
    \/ \E t \in TaskIDs : TaskFlag(t)
           /\ UNCHANGED << sendVars, recvVars, auxVars >>
    \/ TickPastGrace /\ UNCHANGED << sendVars, recvVars, auxVars >>

SpecStreamConc == Init /\ [][ConcNext]_vars

\* stream.transition on every input.
TransitionNext ==
    \E s \in StreamIDs, frameType \in FrameType, endStream \in BOOLEAN :
        ReceiveAny(s, frameType, endStream)
            /\ UNCHANGED << sendVars, recvVars, auxVars >>

\* Every state, pair of reset flags and age of the close to start from.
AnyStreamInit ==
    TransitionInit /\ TaskInit /\ SendInit /\ RecvInit /\ AuxInit

SpecTransition == AnyStreamInit /\ [][TransitionNext]_vars

\* The producers inside allocateBytes, the peer's window increments and
\* initial window changes, and the close signals.
SendNext ==
    \/ \E p \in Producers, s \in FlowStreamIDs, n \in AllocSizes :
           AllocNothing(p, s, n)
               /\ UNCHANGED << streamVars, recvVars, auxVars >>
    \/ \E p \in Producers, s \in FlowStreamIDs, n \in AllocSizes :
           AllocCall(p, s, n) /\ UNCHANGED << streamVars, recvVars, auxVars >>
    \/ \E p \in Producers : AwaitStreamClosed(p)
           /\ UNCHANGED << streamVars, recvVars, auxVars >>
    \/ \E p \in Producers : AwaitStreamConnClosed(p)
           /\ UNCHANGED << streamVars, recvVars, auxVars >>
    \/ \E p \in Producers : AwaitStreamCredit(p)
           /\ UNCHANGED << streamVars, recvVars, auxVars >>
    \/ \E p \in Producers : IncrementConn(p)
           /\ UNCHANGED << streamVars, recvVars, auxVars >>
    \/ \E p \in Producers : AwaitConnClosed(p)
           /\ UNCHANGED << streamVars, recvVars, auxVars >>
    \/ \E p \in Producers : AwaitConnConnClosed(p)
           /\ UNCHANGED << streamVars, recvVars, auxVars >>
    \/ \E p \in Producers : AwaitConnCredit(p)
           /\ UNCHANGED << streamVars, recvVars, auxVars >>
    \/ \E p \in Producers : ReturnStream(p)
           /\ UNCHANGED << streamVars, recvVars, auxVars >>
    \/ \E p \in Producers : ReturnConn(p)
           /\ UNCHANGED << streamVars, recvVars, auxVars >>
    \/ \E c \in FlowIDs, delta \in WindowIncrements : WindowUpdate(c, delta)
           /\ UNCHANGED << streamVars, recvVars, auxVars >>
    \/ \E s \in FlowStreamIDs, delta \in InitialWindowChanges :
           SetInitialSendWindow(s, delta)
           /\ UNCHANGED << streamVars, recvVars, auxVars >>
    \/ \E s \in FlowStreamIDs : StreamClosed(s)
           /\ UNCHANGED << streamVars, recvVars, auxVars >>
    \/ ConnClosed /\ UNCHANGED << streamVars, recvVars, auxVars >>

SpecSend == Init /\ [][SendNext]_vars

\* Stream 1 exhausted: a producer on stream 1 and one on stream 3, and the
\* peer's WINDOW_UPDATE frames on stream 3 and on the connection.  The Go
\* scheduler runs every goroutine that can take a step.
ExhaustedNext ==
    \/ \E p \in Producers, n \in AllocSizes : AllocCall(p, streamOf[p], n)
           /\ UNCHANGED << streamVars, recvVars, auxVars >>
    \/ \E p \in Producers : AwaitStreamCredit(p)
           /\ UNCHANGED << streamVars, recvVars, auxVars >>
    \/ \E p \in Producers : IncrementConn(p)
           /\ UNCHANGED << streamVars, recvVars, auxVars >>
    \/ \E p \in Producers : AwaitConnCredit(p)
           /\ UNCHANGED << streamVars, recvVars, auxVars >>
    \/ \E p \in Producers : ReturnStream(p)
           /\ UNCHANGED << streamVars, recvVars, auxVars >>
    \/ \E p \in Producers : ReturnConn(p)
           /\ UNCHANGED << streamVars, recvVars, auxVars >>
    \/ \E c \in {0, 3}, delta \in WindowIncrements : WindowUpdate(c, delta)
           /\ UNCHANGED << streamVars, recvVars, auxVars >>

ExhaustedStreamInit ==
    StreamInit /\ TaskInit /\ ExhaustedInit /\ RecvInit /\ AuxInit

SpecExhausted ==
    /\ ExhaustedStreamInit
    /\ [][ExhaustedNext]_vars
    /\ \A p \in Producers :
           WF_vars(ProducerStep(p)
               /\ UNCHANGED << streamVars, recvVars, auxVars >>)

\* DATA received and handed to the application, and the changes of the
\* windows and of INITIAL_WINDOW_SIZE.
RecvNext ==
    \/ \E s \in RecvStreamIDs, n \in RecvSizes : ConsumeBytes(s, n)
           /\ UNCHANGED << streamVars, sendVars, auxVars >>
    \/ \E s \in RecvStreamIDs, delta \in RecvSizes : ReturnBytes(s, delta)
           /\ UNCHANGED << streamVars, sendVars, auxVars >>
    \/ \E c \in RecvIDs, delta \in InitialWindowChanges :
           IncrementRecvWindow(c, delta)
               /\ UNCHANGED << streamVars, sendVars, auxVars >>
    \/ \E c \in RecvIDs, delta \in InitialWindowChanges :
           SetInitialRecvWindow(c, delta)
           /\ UNCHANGED << streamVars, sendVars, auxVars >>

SpecRecv == Init /\ [][RecvNext]_vars

\* Calls of SetValue and Value on one Settings value.
SettingsNext ==
    \/ \E id \in SettingIDs : \E v \in SettingValues[id] : SetValue(id, v)
           /\ UNCHANGED << streamVars, sendVars, recvVars, shrinkVars,
                           closeVars >>
    \/ \E id \in SettingIDs : ReadValue(id)
           /\ UNCHANGED << streamVars, sendVars, recvVars, shrinkVars,
                           closeVars >>

SpecSettings == Init /\ [][SettingsNext]_vars

\* The reader, the writer and a task calling close(), step by step, with
\* the effects of the close counted.
CloseNext ==
    \/ \E t \in TaskIDs, s \in StreamIDs, f \in ConcFrame : TaskCall(t, s, f)
           /\ UNCHANGED << sendVars, recvVars, settingsVars, shrinkVars,
                           closeVars >>
    \/ \E t \in TaskIDs, s \in StreamIDs : TaskClose(t, s)
           /\ UNCHANGED << sendVars, recvVars, settingsVars, shrinkVars,
                           closeVars >>
    \/ \E t \in TaskIDs : TaskReload(t)
           /\ UNCHANGED << sendVars, recvVars, settingsVars, shrinkVars,
                           closeVars >>
    \/ \E t \in TaskIDs : TaskReadResetReceived(t)
           /\ UNCHANGED << sendVars, recvVars, settingsVars, shrinkVars,
                           closeVars >>
    \/ \E t \in TaskIDs : TaskReadResetSent(t)
           /\ UNCHANGED << sendVars, recvVars, settingsVars, shrinkVars,
                           closeVars >>
    \/ \E t \in TaskIDs : TaskReadClosed(t)
           /\ UNCHANGED << sendVars, recvVars, settingsVars, shrinkVars,
                           closeVars >>
    \/ \E t \in TaskIDs : TaskCAS(t)
           /\ UNCHANGED << sendVars, recvVars, settingsVars, shrinkVars,
                           closeVars >>
    \/ \E t \in TaskIDs : TaskCountEffect(t)
           /\ UNCHANGED << sendVars, recvVars, settingsVars, shrinkVars >>
    \/ \E t \in TaskIDs : TaskArmEffect(t)
           /\ UNCHANGED << sendVars, recvVars, settingsVars, shrinkVars >>
    \/ \E t \in TaskIDs : TaskFlag(t)
           /\ UNCHANGED << sendVars, recvVars, settingsVars, shrinkVars,
                           closeVars >>
    \/ TickPastGrace
           /\ UNCHANGED << sendVars, recvVars, settingsVars, shrinkVars,
                           closeVars >>

SpecClose == Init /\ [][CloseNext]_vars

\* dir.transition through stream.transition, on every input of either
\* direction.
TableNext ==
    \/ \E s \in StreamIDs, frameType \in FrameType, endStream \in BOOLEAN :
           ReceiveAny(s, frameType, endStream)
           /\ UNCHANGED << sendVars, recvVars, auxVars >>
    \/ \E s \in StreamIDs, frameType \in FrameType, endStream \in BOOLEAN :
           SendAny(s, frameType, endStream)
           /\ UNCHANGED << sendVars, recvVars, auxVars >>

SpecTable == AnyStreamInit /\ [][TableNext]_vars

\* Transitions and close() calls on several streams, one call a step.
CountedNext ==
    \/ \E s \in CountedStreamIDs, f \in ConcFrame : Receive(s, f)
           /\ UNCHANGED << sendVars, recvVars, auxVars >>
    \/ \E s \in CountedStreamIDs, f \in ConcFrame : Send(s, f)
           /\ UNCHANGED << sendVars, recvVars, auxVars >>
    \/ \E s \in CountedStreamIDs : Close(s)
           /\ UNCHANGED << sendVars, recvVars, auxVars >>

CountedStreamsInit ==
    CountedInit /\ TaskInit /\ SendInit /\ RecvInit /\ AuxInit

SpecCounted == CountedStreamsInit /\ [][CountedNext]_vars

\* Producers inside allocateBytes on either stream and the peer's
\* WINDOW_UPDATE frames, stream and connection staying open.  The Go
\* scheduler runs every goroutine that can take a step; nothing makes a
\* producer call allocateBytes.
WakeNext ==
    \/ \E p \in Producers, s \in FlowStreamIDs, n \in AllocSizes :
           AllocCall(p, s, n) /\ UNCHANGED << streamVars, recvVars, auxVars >>
    \/ \E p \in Producers : AwaitStreamCredit(p)
           /\ UNCHANGED << streamVars, recvVars, auxVars >>
    \/ \E p \in Producers : IncrementConn(p)
           /\ UNCHANGED << streamVars, recvVars, auxVars >>
    \/ \E p \in Producers : AwaitConnCredit(p)
           /\ UNCHANGED << streamVars, recvVars, auxVars >>
    \/ \E p \in Producers : ReturnStream(p)
           /\ UNCHANGED << streamVars, recvVars, auxVars >>
    \/ \E p \in Producers : ReturnConn(p)
           /\ UNCHANGED << streamVars, recvVars, auxVars >>
    \/ \E c \in FlowIDs, delta \in WindowIncrements : WindowUpdate(c, delta)
           /\ UNCHANGED << streamVars, recvVars, auxVars >>

SpecWake ==
    /\ Init
    /\ [][WakeNext]_vars
    /\ \A p \in Producers :
           WF_vars(ProducerStep(p)
               /\ UNCHANGED << streamVars, recvVars, auxVars >>)

\* DATA received on a stream and handed to the application, between runs
\* of INITIAL_WINDOW_SIZE changes.
ShrinkNext ==
    \/ \E s \in RecvStreamIDs, n \in RecvSizes : ConsumeAfterChanges(s, n)
           /\ UNCHANGED << streamVars, sendVars, settingsVars, closeVars >>
    \/ \E s \in RecvStreamIDs, delta \in RecvSizes :
           ReturnAfterChanges(s, delta)
           /\ UNCHANGED << streamVars, sendVars, settingsVars, closeVars >>
    \/ \E s \in RecvStreamIDs, delta \in InitialWindowChanges :
           ChangeInitialWindow(s, delta)
           /\ UNCHANGED << streamVars, sendVars, settingsVars, closeVars >>

SpecShrink == Init /\ [][ShrinkNext]_vars

(***************************************************************************)
(* Properties of the stream state machine.                                  *)
(***************************************************************************)
ErrCode ==
    {ErrCodeProtocol, ErrCodeInternal, ErrCodeFlowControl, ErrCodeStreamClosed}

\* C2: a receive-direction call of stream.transition, in any state, for any
\* frame type, either endStream and any reset flags, returns one defined
\* outcome: a next state among the seven with no error (the stream is then
\* in that state), or the ignored marker, a stream error or a connection
\* error (the stream then stays in the state it was in).
C2_ReceiveOutcomeDefined ==
    ret.op = recv =>
        /\ ret.err \in {nil, ignoreFrame}
                         \cup {StreamError(c) : c \in ErrCode}
                         \cup {ConnError(c) : c \in ErrCode}
        /\ ret.to \in StreamState
        /\ state[ret.s] = ret.to
        /\ ret.err # nil => ret.to = ret.from

C2_Witness ==
    /\ ret.op = recv
    /\ ret.kind = FrameContinuation
    /\ ret.es
    /\ ret.from = StateReservedLocal
    /\ resetSent[ret.s]
    /\ resetReceived[ret.s]
    /\ ret.err = StreamError(ErrCodeStreamClosed)

\* C3: a stream that has left Idle is never Idle again, and a stream that
\* has reached Closed stays Closed, whatever steps the reader, the writer
\* and close() take.
C3_NoReturnToIdleClosedStays ==
    [][\A s \in StreamIDs :
           /\ state[s] # StateIdle => state'[s] # StateIdle
           /\ state[s] = StateClosed => state'[s] = StateClosed]_vars

C3_Witness ==
    /\ ret.op \in {recv, send, "close"}
    /\ ret.from = StateClosed
    /\ ret.err = nil
    /\ state[ret.s] = StateClosed

\* C4: a permitted transition whose frame carries END_STREAM: when the
\* table's destination is Open the stream becomes HalfClosedRemote on
\* receive and HalfClosedLocal on send; when it is half-closed in the other
\* direction the stream becomes Closed; and a frame with END_STREAM on a
\* stream half-closed in the same direction never closes it.
C4_EndStreamPromotion ==
    ret.op \in {recv, send} /\ ret.es =>
        LET dest == tableTransition(ret.op, ret.from, ret.kind).to
            other == IF ret.op = recv THEN StateHalfClosedLocal
                     ELSE StateHalfClosedRemote
            same == IF ret.op = recv THEN StateHalfClosedRemote
                    ELSE StateHalfClosedLocal
        IN
        /\ state[ret.s] = ret.to
        /\ ret.err = nil /\ dest = StateOpen => ret.to = same
        /\ ret.err = nil /\ dest = other => ret.to = StateClosed
        /\ ret.from = same => ret.to = same

C4_Witness ==
    /\ ret.op = recv
    /\ ret.kind = FrameHeaders
    /\ ret.es
    /\ ret.from = StateHalfClosedLocal
    /\ ret.err = nil
    /\ state[ret.s] = StateClosed
    /\ closed[ret.s] = now

C6_Original ==
    /\ ret.op = recv
    /\ ret.from = StateClosed
    /\ ret.kind \in {FrameWindowUpdate, FrameRSTStream}
    => /\ state[ret.s] = StateClosed
       /\ ret.err = IF Since(closed[ret.s]) <= closedGraceSeconds
                    THEN ignoreFrame
                    ELSE ConnError(ErrCodeProtocol)

\* C6, amended: WINDOW_UPDATE or RST_STREAM received on a Closed stream is
\* a stream error STREAM_CLOSED when resetReceived is set; otherwise it is
\* ignored up to 5 seconds after the close, and later it is a stream error
\* STREAM_CLOSED when resetSent is set and a connection error
\* PROTOCOL_ERROR when no reset flag is set.  The state stays Closed.
C6_ClosedToleratesLateFrames ==
    /\ ret.op = recv
    /\ ret.from = StateClosed
    /\ ret.kind \in {FrameWindowUpdate, FrameRSTStream}
    => /\ state[ret.s] = StateClosed
       /\ ret.err =
              IF resetReceived[ret.s] THEN StreamError(ErrCodeStreamClosed)
              ELSE IF Since(closed[ret.s]) <= closedGraceSeconds THEN ignoreFrame
              ELSE IF resetSent[ret.s] THEN StreamError(ErrCodeStreamClosed)
              ELSE ConnError(ErrCodeProtocol)

C6_Witness ==
    /\ ret.op = recv
    /\ ret.from = StateClosed
    /\ ret.kind = FrameWindowUpdate
    /\ ~resetSent[ret.s]
    /\ ~resetReceived[ret.s]
    /\ Since(closed[ret.s]) = closedGraceSeconds + 1
    /\ ret.err = ConnError(ErrCodeProtocol)

\* C7: a frame other than PRIORITY, WINDOW_UPDATE and RST_STREAM received
\* on a Closed stream is a stream error STREAM_CLOSED when resetReceived is
\* set; otherwise, when resetSent is set, it is ignored up to 5 seconds
\* after the close and a stream error STREAM_CLOSED later; otherwise it is
\* a connection error PROTOCOL_ERROR.  The state stays Closed.
C7_ClosedOtherFrames ==
    /\ ret.op = recv
    /\ ret.from = StateClosed
    /\ ret.kind \notin {FramePriority, FrameWindowUpdate, FrameRSTStream}
    => /\ state[ret.s] = StateClosed
       /\ ret.err =
              IF resetReceived[ret.s] THEN StreamError(ErrCodeStreamClosed)
              ELSE IF resetSent[ret.s]
                   THEN IF Since(closed[ret.s]) <= closedGraceSeconds
                        THEN ignoreFrame
                        ELSE StreamError(ErrCodeStreamClosed)
              ELSE ConnError(ErrCodeProtocol)

C7_Witness ==
    /\ ret.op = recv
    /\ ret.from = StateClosed
    /\ ret.kind = FrameData
    /\ resetSent[ret.s]
    /\ Since(closed[ret.s]) = closedGraceSeconds
    /\ ret.err = ignoreFrame

\* C8 as stated: a send on a Closed stream returns the ignored marker for
\* RST_STREAM and a local error for every other frame type, and changes
\* neither the state nor a reset flag nor a counter.
C8_Original ==
    [][ret'.op = send /\ ret'.from = StateClosed =>
           /\ ret'.err = IF ret'.kind = FrameRSTStream THEN ignoreFrame
                         ELSE LocalError
           /\ UNCHANGED << state, resetSent, resetReceived, numStreams,
                           remoteNumStreams >>]_vars

\* C8, amended: a send on a Closed stream returns the ignored marker for
\* RST_STREAM, succeeds for PRIORITY and returns a local error for every
\* other frame type; in all cases the state stays Closed and neither a
\* reset flag nor a counter changes.
C8_SendOnClosed ==
    [][ret'.op = send /\ ret'.from = StateClosed =>
           /\ ret'.err = CASE ret'.kind = FrameRSTStream -> ignoreFrame
                           [] ret'.kind = FramePriority -> nil
                           [] OTHER -> LocalError
           /\ state'[ret'.s] = StateClosed
           /\ UNCHANGED << state, resetSent, resetReceived, numStreams,
                           remoteNumStreams >>]_vars

C8_Witness ==
    /\ ret.op = send
    /\ ret.from = StateClosed
    /\ ret.kind = FramePriority
    /\ ret.err = nil
    /\ resetReceived[ret.s]
    /\ state[ret.s] = StateClosed

\* C9: under any interleaving of the reader, the writer and close(),
\* resetSent and resetReceived are never both true, a flag that is true
\* stays true, and a flag is true only on a Closed stream.
C9_ResetFlags ==
    /\ [](\A s \in StreamIDs :
              /\ ~(resetSent[s] /\ resetReceived[s])
              /\ resetSent[s] \/ resetReceived[s] => state[s] = StateClosed)
    /\ [][\A s \in StreamIDs :
              /\ resetSent[s] => resetSent'[s]
              /\ resetReceived[s] => resetReceived'[s]]_vars

C9_Witness ==
    /\ resetSent[1]
    /\ ret.op = recv
    /\ ret.kind = FrameRSTStream
    /\ ret.from = StateClosed
    /\ ret.err = ignoreFrame
    /\ task["closer"].pc = "cas"

(***************************************************************************)
(* Properties of the send flow controllers.                                 *)
(***************************************************************************)
RECURSIVE SumOver(_, _)
SumOver(f, S) ==
    IF S = {} THEN 0
    ELSE LET x == CHOOSE y \in S : TRUE IN f[x] + SumOver(f, S \ {x})

\* C1: under any interleaving of the producers inside allocateBytes with
\* the peer's window increments, the bytes granted on a stream never exceed
\* the stream's initial send window plus its increments, and the bytes
\* granted on all streams never exceed the connection's initial send window
\* plus the connection's increments.
C1_GrantsWithinCredit ==
    /\ \A s \in FlowStreamIDs : granted[s] <= credited[s]
    /\ SumOver(granted, FlowStreamIDs) <= credited[0]

C1_Witness ==
    /\ \A s \in FlowStreamIDs : granted[s] > 0
    /\ \A p \in Producers : prod[p].pc = "done"
    /\ credited[0] > defaultInitialWindowSize
    /\ SumOver(granted, FlowStreamIDs) = credited[0]

\* C15 as stated: the credit available on a send controller, its win plus
\* the credit parked in its channel, never exceeds maxInitialWindowSize,
\* every incrementWindow or incrementInitialWindow that would raise it past
\* maxInitialWindowSize being refused.
C15_Original ==
    \A c \in FlowIDs : available(sendFlow[c]) <= maxInitialWindowSize

Min(a, b) == IF a < b THEN a ELSE b

\* C16 as stated: allocateBytes(stream, n) with n >= 1 that claimed sw and
\* cw grants min(n, sw, cw), at least 1, and returns sw - grant to the
\* stream's controller and cw - grant to the connection's, whose available
\* credit rises by as much; with n <= 0 it returns 0 and changes no credit.
C16_Original ==
    [][/\ sret'.op = "allocateBytes" /\ prod' = prod
              => sret'.n = 0 /\ sret'.err = nil /\ sendFlow' = sendFlow
       /\ \A p \in Producers :
           LET s == prod[p].s
               cw == Head(sendFlow[0].winCh)
               g == Min(prod[p].n, Min(prod[p].sw, cw))
           IN
           /\ prod[p].pc = "awaitConn" /\ prod'[p].pc = "done" /\ sret'.err = nil
                  => g >= 1 /\ sret'.n = g /\ g = prod[p].sw /\ g = cw
           /\ prod[p].pc = "awaitConn" /\ prod'[p].pc \in {"returnStream", "returnConn"}
                  => g >= 1 /\ prod'[p].n = g
           /\ prod[p].pc = "returnStream" /\ prod'[p].pc # "returnStream"
                  => available(sendFlow'[s]) =
                         available(sendFlow[s]) + prod[p].sw - prod[p].n
           /\ prod[p].pc = "returnConn" /\ prod'[p].pc # "returnConn"
                  => /\ available(sendFlow'[0]) =
                            available(sendFlow[0]) + prod[p].cw - prod[p].n
                     /\ sret' = SendReturned("allocateBytes", s, prod[p].n, nil)]_vars

\* C17 as stated: when allocateBytes returns an error because the stream
\* or the connection was closed, the credit it had claimed is back: the
\* stream credit taken in the first await is available on the stream's
\* controller again, and the available credit of the connection's
\* controller is what it was.
C17_Original ==
    [][\A p \in Producers :
           /\ prod[p].pc \in {"awaitStream", "awaitConn"}
           /\ prod'[p].pc = "done"
           /\ sret'.err \in {errStreamClosed, ErrClosed}
           => /\ available(sendFlow'[prod[p].s]) =
                     available(sendFlow[prod[p].s]) + prod[p].sw
              /\ available(sendFlow'[0]) = available(sendFlow[0])]_vars

\* C17, amended: when allocateBytes returns an error because the stream or
\* the connection was closed, the available credit of the connection's
\* controller is what it was, the credit parked in its channel being taken
\* back into win by cancel() on a close of the stream; an abort in the
\* first await leaves the stream's controller as it was, and an abort in
\* the second await does not give back the stream credit sw taken in the
\* first.
C17_AbortKeepsConnCredit ==
    [][\A p \in Producers :
           /\ prod[p].pc \in {"awaitStream", "awaitConn"}
           /\ prod'[p].pc = "done"
           /\ sret'.err \in {errStreamClosed, ErrClosed}
           => /\ available(sendFlow'[0]) = available(sendFlow[0])
              /\ sendFlow'[prod[p].s] = sendFlow[prod[p].s]
              /\ sret'.n = 0
              /\ prod[p].pc = "awaitStream" => sendFlow' = sendFlow
              /\ prod[p].pc = "awaitConn" /\ sret'.err = errStreamClosed
                     => sendFlow'[0].winCh = << >>]_vars

C17_Witness ==
    /\ sret.op = "allocateBytes"
    /\ sret.err = errStreamClosed
    /\ sendFlow[0].winCh = << >>
    /\ sendFlow[0].win = defaultInitialWindowSize
    /\ available(sendFlow[sret.id]) = 0
    /\ granted[sret.id] = 0

\* C18: a producer blocked on its stream's exhausted window holds no
\* credit of the connection, and while the producer of stream 1 is blocked
\* so, a producer that has called allocateBytes on stream 3, whose window
\* and the connection's are positive, eventually returns a positive grant.
C18_NoHeadOfLineBlocking ==
    /\ [](\A p \in Producers : prod[p].pc = "awaitStream" => prod[p].cw = 0)
    /\ \A p \in Producers :
           (prod[p].pc = "awaitStream" /\ prod[p].s = 3)
               ~> (prod[p].pc = "done" /\ granted[3] > 0)

C18_Witness ==
    /\ prod["p1"].pc = "awaitStream"
    /\ prod["p1"].s = 1
    /\ available(sendFlow[1]) = 0
    /\ prod["p2"].pc = "done"
    /\ sret.op = "allocateBytes"
    /\ sret.id = 3
    /\ sret.n > 0

\* C19: an INITIAL_WINDOW_SIZE change of delta that a writable stream's
\* send controller accepts changes the stream's available credit, win plus
\* the credit parked in the channel, by exactly delta; the result may be
\* zero or negative, and while it is not positive the channel is empty, so
\* that no producer is given credit.
C19_InitialWindowDelta ==
    /\ [](\A s \in FlowStreamIDs :
              available(sendFlow[s]) <= 0 => sendFlow[s].winCh = << >>)
    /\ [][sret'.op = "incrementInitialWindow" /\ sret'.err = nil =>
              available(sendFlow'[sret'.id]) =
                  available(sendFlow[sret'.id]) + sret'.n]_vars

C19_Witness ==
    /\ sret.op = "incrementInitialWindow"
    /\ sret.err = nil
    /\ sret.n < 0
    /\ available(sendFlow[sret.id]) < 0
    /\ \E p \in Producers : prod[p].pc = "awaitStream" /\ prod[p].s = sret.id

\* C20 as stated: a producer that receives credit from a controller's
\* channel receives the controller's whole available credit, and right
\* after the receipt the controller's win is 0 and its channel is empty.
C20_Original ==
    [][\A p \in Producers :
           /\ prod[p].pc = "awaitStream" /\ prod'[p].pc = "incrementConn"
                  => /\ prod'[p].sw = available(sendFlow[prod[p].s])
                     /\ sendFlow'[prod[p].s] = [win |-> 0, winCh |-> << >>]
           /\ prod[p].pc = "awaitConn" /\ prod'[p].pc # "awaitConn"
              /\ sret'.err = nil
                  => sendFlow'[0] = [win |-> 0, winCh |-> << >>]]_vars

\* C20, amended: a producer that receives credit from a controller's
\* channel receives the credit parked there, which is positive and was the
\* controller's whole win when it was parked (parking sets win to 0); right
\* after the receipt the channel is empty and win is what it was, the
\* increments that arrived while the credit was parked.
C20_ReceivesParkedCredit ==
    [][/\ \A p \in Producers :
              /\ prod[p].pc = "awaitStream" /\ prod'[p].pc = "incrementConn"
                     => /\ prod'[p].sw = parked(sendFlow[prod[p].s])
                        /\ prod'[p].sw > 0
                        /\ sendFlow'[prod[p].s] =
                               [win |-> sendFlow[prod[p].s].win, winCh |-> << >>]
              /\ prod[p].pc = "awaitConn" /\ prod'[p].pc # "awaitConn"
                 /\ sret'.err = nil
                     => /\ parked(sendFlow[0]) > 0
                        /\ sendFlow'[0] = [win |-> sendFlow[0].win, winCh |-> << >>]
       /\ \A c \in FlowIDs :
              sendFlow[c].winCh = << >> /\ sendFlow'[c].winCh # << >>
                  => sendFlow'[c].win = 0 /\ parked(sendFlow'[c]) > 0]_vars

C20_Witness ==
    \E p \in Producers :
        /\ prod[p].pc = "incrementConn"
        /\ prod[p].sw = defaultInitialWindowSize
        /\ sendFlow[prod[p].s].winCh = << >>
        /\ sendFlow[prod[p].s].win > 0

(***************************************************************************)
(* Properties of the receive flow controllers.                              *)
(***************************************************************************)
\* C10: consumeBytes(n) with n > 0 on a stream's receive controller lowers
\* the stream's window and the connection's window by n when neither drops
\* below its winLowerBound; it fails with FLOW_CONTROL_ERROR exactly when
\* one of them would: as a connection error when the connection's window
\* would, as a stream error when only the stream's window would.
C10_ConsumeBytes ==
    [][rret'.op = "consumeBytes" /\ rret'.n > 0 =>
           LET s == rret'.id
               n == rret'.n
               connFits == recvFlow[0].win - n >= recvFlow[0].winLowerBound
               ownFits == recvFlow[s].win - n >= recvFlow[s].winLowerBound
           IN
           /\ connFits /\ ownFits =>
                  /\ rret'.err = nil
                  /\ recvFlow'[0].win = recvFlow[0].win - n
                  /\ recvFlow'[s].win = recvFlow[s].win - n
           /\ ~connFits => rret'.err = ConnError(ErrCodeFlowControl)
           /\ connFits /\ ~ownFits => rret'.err = StreamError(ErrCodeFlowControl)]_vars

C10_Witness ==
    /\ rret.op = "consumeBytes"
    /\ rret.n > 0
    /\ rret.err = StreamError(ErrCodeFlowControl)
    /\ recvFlow[rret.id].winLowerBound < 0
    /\ recvFlow[rret.id].win < recvFlow[rret.id].winLowerBound
    /\ recvFlow[0].win >= recvFlow[0].winLowerBound

\* The WINDOW_UPDATE frames of controller id among frames.
framesOf(frames, id) == {i \in 1..Len(frames) : frames[i].id = id}

C12_Original ==
    [][/\ rret'.op = "incrementInitialWindow"
       /\ rret'.id # 0
       /\ rret'.err = nil
       => LET c == rret'.id
              delta == rret'.n
          IN
          /\ recvFlow'[c].winUpperBound = recvFlow[c].winUpperBound + delta
          /\ recvFlow'[c].winLowerBound = IF delta < 0 THEN delta ELSE 0]_vars

\* C13 as stated: after any sequence of calls, win + processedWin <=
\* winUpperBound on every stream's receive controller.
C13_Original ==
    rret.op # "none" =>
        \A s \in RecvStreamIDs :
            recvFlow[s].win + recvFlow[s].processedWin
                <= recvFlow[s].winUpperBound

\* C13, amended: on every stream's receive controller win <= processedWin,
\* the difference being the bytes consumed and not yet returned, after any
\* sequence of consumeBytes, returnBytes, incrementWindow and
\* incrementInitialWindow calls; and processedWin <= winUpperBound as long
\* as only consumeBytes and returnBytes have been called.
C13_ConsumedWithinWindow ==
    \A s \in RecvStreamIDs :
        /\ recvFlow[s].win <= recvFlow[s].processedWin
        /\ recvUpdates = 0 =>
               recvFlow[s].processedWin <= recvFlow[s].winUpperBound

C13_Witness ==
    /\ rret.op = "returnBytes"
    /\ rret.err = nil
    /\ rret.n > 0
    /\ recvUpdates = 0
    /\ recvFlow[rret.id].win < recvFlow[rret.id].processedWin
    /\ recvFlow[rret.id].processedWin < recvFlow[rret.id].winUpperBound

\* C14 as stated: every WINDOW_UPDATE a receive controller emits carries an
\* increment of at least 1 and at most the controller's winUpperBound at the
\* time of emission.
C14_Original ==
    \A i \in 1..Len(writeQueue) :
        /\ writeQueue[i].increment >= 1
        /\ writeQueue[i].increment <= recvFlow[writeQueue[i].id].winUpperBound

(***************************************************************************)
(* Properties of the settings.                                              *)
(***************************************************************************)
\* The ids of the entries of a Settings value, in their order.
idsOf(s) == [i \in 1..Len(s) |-> s[i].ID]

\* Whether the specification's table of valid ranges refuses the value.
outOfRange(id, v) ==
    \/ id = SettingEnablePush /\ v >= 2
    \/ id = SettingInitialWindowSize /\ v > maxInitialWindowSize
    \/ id = SettingMaxFrameSize /\ (v < 16384 \/ v > 16777215)

\* C21: after any sequence of SetValue calls the settings hold at most one
\* entry per id, an entry for exactly the ids a call was accepted for, and
\* each entry holds the last value accepted for its id, which Value returns;
\* no entry is outside its valid range.  A call with a value outside the
\* range of its id returns an error and leaves the settings unchanged; any
\* other call returns nil, overwrites the entry of the id in place or, when
\* there is none, appends one, so that the first-insertion order is kept.
C21_SettingsStore ==
    /\ [](/\ \A i, j \in 1..Len(settings) :
                 settings[i].ID = settings[j].ID => i = j
          /\ \A i \in 1..Len(settings) :
                 /\ settings[i].Value = accepted[settings[i].ID]
                 /\ ~outOfRange(settings[i].ID, settings[i].Value)
          /\ \A id \in SettingIDs :
                 accepted[id] # NoValue =>
                     /\ \E i \in 1..Len(settings) : settings[i].ID = id
                     /\ Value(settings, id) = accepted[id])
    /\ [][setret'.op = "SetValue" =>
              IF outOfRange(setret'.id, setret'.value)
              THEN setret'.err # nil /\ settings' = settings
              ELSE /\ setret'.err = nil
                   /\ accepted'[setret'.id] = setret'.value
                   /\ idsOf(settings') =
                          IF \E i \in 1..Len(settings) :
                                 settings[i].ID = setret'.id
                          THEN idsOf(settings)
                          ELSE Append(idsOf(settings), setret'.id)]_vars

C21_Witness ==
    /\ Len(settings) = 3
    /\ setret.op = "SetValue"
    /\ setret.err = nil
    /\ setret.id = SettingMaxFrameSize
    /\ settings[1] = [ID |-> SettingMaxFrameSize, Value |-> 16777215]
    /\ settings[2].ID = SettingEnablePush
    /\ accepted[SettingInitialWindowSize] = maxInitialWindowSize

(***************************************************************************)
(* Properties of the tasks that race on a stream.                           *)
(***************************************************************************)
\* A task has swapped the state of stream s to Closed and has not returned.
closing(t, s) ==
    /\ task[t].pc \in {"count", "arm", "flag"}
    /\ task[t].s = s
    /\ task[t].to = StateClosed

\* Stream s was closed by a RST_STREAM this endpoint sent.
closedByLocalReset(s) ==
    \/ resetSent[s]
    \/ \E t \in TaskIDs :
           closing(t, s) /\ task[t].op = send /\ task[t].kind = FrameRSTStream

\* C22 as stated: a task that has loaded the state Closed finds the
\* bookkeeping of the closing transition done, the closed timestamp set and
\* no step of the closing task outstanding; and a frame received on a
\* stream that a sent RST_STREAM has closed, within the 5 seconds after the
\* close, is ignored or, for PRIORITY, accepted, and is never answered
\* with a stream error or a connection error.
C22_Original ==
    /\ \A t \in TaskIDs :
           /\ task[t].pc \in {"readReceived", "readSent", "readClosed"}
           /\ task[t].from = StateClosed
           => /\ closed[task[t].s] # zeroTime
              /\ \A u \in TaskIDs : ~closing(u, task[t].s)
    /\ /\ ret.op = recv
       /\ ret.from = StateClosed
       /\ closedByLocalReset(ret.s)
       /\ closed[ret.s] = zeroTime \/ Since(closed[ret.s]) <= closedGraceSeconds
       => ret.err \in {ignoreFrame, nil}

(***************************************************************************)
(* Properties of the producers that wait for credit.                        *)
(***************************************************************************)
\* The controller whose channel producer p waits on, when it waits.
awaited(p) == IF prod[p].pc = "awaitStream" THEN prod[p].s ELSE 0

\* Producer p waits in a select of allocateBytes and no case can proceed:
\* the channel is empty and stream and connection are open.
blocked(p) ==
    /\ prod[p].pc \in {"awaitStream", "awaitConn"}
    /\ sendFlow[awaited(p)].winCh = << >>
    /\ ~closeCh[prod[p].s]
    /\ ~connCloseCh

\* C23 as stated: with stream and connection open and the producers'
\* steps scheduled fairly, no producer stays blocked in allocateBytes for
\* ever while the controller it waits on keeps positive credit, whether or
\* not a further WINDOW_UPDATE arrives.
C23_Original ==
    \A p \in Producers :
        ~<>[](blocked(p) /\ available(sendFlow[awaited(p)]) > 0)

(***************************************************************************)
(* Properties of the receive window across INITIAL_WINDOW_SIZE changes.     *)
(***************************************************************************)
\* C24 as stated: DATA of k bytes on a stream, with 0 <= k <= the window
\* the stream had before the changes of the initial window made since the
\* last DATA or return of bytes, does not fail with a stream error
\* FLOW_CONTROL_ERROR.
C24_Original ==
    [][/\ rret'.op = "consumeBytes"
       /\ 0 <= rret'.n
       /\ rret'.n <= fitted[rret'.id]
       => rret'.err # StreamError(ErrCodeFlowControl)]_vars

(***************************************************************************)
(* Properties of the two directions of dir.transition.                      *)
(***************************************************************************)
\* The state as the peer sees it.
mirror(st) ==
    CASE st = StateReservedLocal -> StateReservedRemote
      [] st = StateReservedRemote -> StateReservedLocal
      [] st = StateHalfClosedLocal -> StateHalfClosedRemote
      [] st = StateHalfClosedRemote -> StateHalfClosedLocal
      [] OTHER -> st

\* C25 as stated: a send of a frame in a state is permitted exactly when
\* the receive of the frame, with the same END_STREAM, is permitted in the
\* mirrored state, and its next state is the mirror of the receive's.
C25_Original ==
    ret.op = send =>
        LET r == dirTransition(recv, mirror(ret.from), ret.kind, ret.es) IN
        /\ (ret.err = nil) = r.ok
        /\ r.ok => ret.to = mirror(r.to)

(***************************************************************************)
(* Properties of the counters of active streams.                            *)
(***************************************************************************)
\* The streams of one side that are in an active state.
activeStreams(isLocal) ==
    {s \in DOMAIN state : local(s) = isLocal /\ active(state[s])}

swapping(t, s) == task[t].pc \in {"count", "arm", "flag"} /\ task[t].s = s

====
